---- MODULE Spec2Model ----
(***************************************************************************)
(* Model of the matching backend: the in-memory store                      *)
(* (internal/store/store.go), the swipe processor (SwipeService) and the   *)
(* registration boundary (UserHandler.CreateUser).                         *)
(*                                                                         *)
(* Every store method runs under the store's single mutex, so one store    *)
(* method is one atomic step.  ProcessSwipe makes up to five store calls   *)
(* and releases the mutex between them: it is modelled as one step per     *)
(* store call, so that concurrent callers interleave exactly at the        *)
(* points where the code lets them.                                        *)
(*                                                                         *)
(* Swipe.Timestamp and Match.Timestamp (time.Now().UTC()) are written but  *)
(* never read by any code path; User.Name, Age and Gender likewise.  The   *)
(* records of the model carry the fields the code reads.                   *)
(***************************************************************************)
EXTENDS Naturals, Sequences, FiniteSets

\* ------------------------------------------------------------------------
\* Universe of the model
\* ------------------------------------------------------------------------

\* uuid.UUID values that occur in requests and registrations.
UserIds == {"a", "b", "c"}

\* Concurrent callers (goroutines serving requests).
Procs == {"p1", "p2"}

\* Callers of GET /feed.
FeedProcs == {"f1"}

\* Values of User.ZoneID.

\* Registration requests (fresh uuid, zone_id) the boundary submits.  Swipe
\* processing never reads the zone, so one zone per identifier is explored:
\* two users share a zone and the third lives elsewhere.
Profiles == {<<"a", "x">>, <<"b", "x">>, <<"c", "y">>}

\* Registration requests explored together with concurrent callers; "c"
\* stays an identifier that requests may name but nobody registers.
RaceProfiles == {<<"a", "x">>, <<"b", "x">>}

\* Longest swipe log explored.
MaxSwipes == 3

SwipeActionLike == "LIKE"
SwipeActionPass == "PASS"
SwipeActions == {SwipeActionLike, SwipeActionPass}

VARIABLES
    users,      \* InMemoryStore.users   : map id -> User
    swipes,     \* InMemoryStore.swipes  : chronological slice of Swipe
    matches,    \* InMemoryStore.matches : chronological slice of Match
    pc,         \* per caller: the store call ProcessSwipe makes next
    args,       \* per caller: (swiperID, swipedID, action) of the call
    ret,        \* per caller: (*ProcessSwipeResult, error), pointers as
                \* sequences of length 0 (nil) or 1
    feed,       \* per feed caller: position, argument, locals and return
                \* value of FeedService.GetFeed
    everRegistered, \* history: every identifier stored since construction
    mu,         \* InMemoryStore.mu : the caller holding the mutex, or NoOne
    op,         \* per caller: the store method it is calling directly, its
                \* argument, position, locals and return value
    http        \* per caller: the HTTP request its handler is serving, the
                \* handler's position and locals, and the response written

vars ==
    <<users, swipes, matches, pc, args, ret, feed, everRegistered, mu, op, http>>
store == <<users, swipes, matches>>

\* ------------------------------------------------------------------------
\* Records
\* ------------------------------------------------------------------------

User(id, zone) == [ID |-> id, ZoneID |-> zone]
Swipe(swiperID, swipedID, action) ==
    [SwiperID |-> swiperID, SwipedID |-> swipedID, Action |-> action]
Match(user1, user2) == [User1ID |-> user1, User2ID |-> user2]

NoArgs == [swiperID |-> "", swipedID |-> "", action |-> ""]

\* A Go slice: nil, or a (possibly empty) sequence of elements.
NilSlice == [isNil |-> TRUE, elems |-> <<>>]
SliceOf(elems) == [isNil |-> FALSE, elems |-> elems]

\* No GetFeed call in progress.
NoFeed ==
    [pc |-> "idle", userID |-> "", requestingUser |-> User("", ""),
     allUsers |-> <<>>, feed |-> NilSlice, err |-> <<>>]
NoRet == [result |-> <<>>, err |-> <<>>]

\* No HTTP request being served; status is the list of status lines written.
NoRequest ==
    [pc |-> "idle", route |-> "", body |-> <<>>, parsed |-> <<>>,
     result |-> <<>>, err |-> <<>>,
     status |-> <<>>, data |-> <<>>, meta |-> <<>>]

\* sync.Mutex unlocked.
NoOne == ""

\* No store method call in progress. atLock is a history field: the store
\* as it was when the call took the mutex.
NoOp ==
    [pc |-> "idle", name |-> "", arg |-> <<>>, local |-> <<>>,
     result |-> <<>>, atLock |-> <<>>]

ValidationError(msg) == [kind |-> "ValidationError", Message |-> msg]
NotFoundError(msg) == [kind |-> "NotFoundError", Message |-> msg]

\* ------------------------------------------------------------------------
\* InMemoryStore methods, as functions of the store's fields
\* ------------------------------------------------------------------------

\* An identifier already present keeps its old entry.
AddUser_KeepsExisting(us, user) ==
    [id \in DOMAIN us \cup {user.ID} |-> IF id \in DOMAIN us THEN us[id] ELSE user]

\* s.users[user.ID] = user
AddUser(us, user) ==
    [id \in DOMAIN us \cup {user.ID} |-> IF id = user.ID THEN user ELSE us[id]]

\* user, exists := s.users[id]
GetUser(us, id) ==
    IF id \in DOMAIN us
    THEN [user |-> us[id], exists |-> TRUE]
    ELSE [user |-> User("", ""), exists |-> FALSE]

\* A swipe of an ordered pair already on record overwrites that record.
AddSwipe_Upsert(sw, swipe) ==
    IF \E i \in DOMAIN sw :
           sw[i].SwiperID = swipe.SwiperID /\ sw[i].SwipedID = swipe.SwipedID
    THEN [i \in DOMAIN sw |->
            IF sw[i].SwiperID = swipe.SwiperID /\ sw[i].SwipedID = swipe.SwipedID
            THEN swipe ELSE sw[i]]
    ELSE Append(sw, swipe)

\* A swipe of an ordered pair already on record is dropped.
AddSwipe_Dedup(sw, swipe) ==
    IF \E i \in DOMAIN sw :
           sw[i].SwiperID = swipe.SwiperID /\ sw[i].SwipedID = swipe.SwipedID
    THEN sw
    ELSE Append(sw, swipe)

\* s.swipes = append(s.swipes, swipe)
AddSwipe(sw, swipe) == Append(sw, swipe)

\* Linear scan in append order; a pointer to a copy of the first hit, or nil.
RECURSIVE FindSwipeFrom(_, _, _, _)
FindSwipeFrom(sw, i, swiperID, swipedID) ==
    IF i > Len(sw) THEN <<>>
    ELSE IF sw[i].SwiperID = swiperID /\ sw[i].SwipedID = swipedID
         THEN <<sw[i]>>
         ELSE FindSwipeFrom(sw, i + 1, swiperID, swipedID)

\* The scan keeps going and returns the last hit.
RECURSIVE FindSwipe_Last(_, _, _)
FindSwipe_Last(sw, swiperID, swipedID) ==
    IF sw = <<>> THEN <<>>
    ELSE IF sw[Len(sw)].SwiperID = swiperID /\ sw[Len(sw)].SwipedID = swipedID
         THEN <<sw[Len(sw)]>>
         ELSE FindSwipe_Last(SubSeq(sw, 1, Len(sw) - 1), swiperID, swipedID)

\* Off by one: the scan stops before the newest entry.
FindSwipe_SkipsNewest(sw, swiperID, swipedID) ==
    FindSwipeFrom(SubSeq(sw, 1, Len(sw) - 1), 1, swiperID, swipedID)

FindSwipe(sw, swiperID, swipedID) == FindSwipeFrom(sw, 1, swiperID, swipedID)

\* The orders in which a range over a map with these keys can visit them.
Orders(keys) ==
    {o \in [1..Cardinality(keys) -> keys] :
        \A i, j \in 1..Cardinality(keys) : o[i] = o[j] => i = j}

\* The slices GetAllUsers can return: every stored user once, in the order
\* the map iteration happens to take.
GetAllUsers(us) ==
    {[i \in 1..Cardinality(DOMAIN us) |-> us[o[i]]] : o \in Orders(DOMAIN us)}

\* No filter: every swipe of the log, whoever made it.
GetSwipesByUser_Unfiltered(sw, userID) == sw

\* The filter also keeps the swipes received by userID.
GetSwipesByUser_EitherSide(sw, userID) ==
    SelectSeq(sw, LAMBDA s : s.SwiperID = userID \/ s.SwipedID = userID)

\* The swipes whose swiper is userID, in append order.
GetSwipesByUser(sw, userID) ==
    SelectSeq(sw, LAMBDA s : s.SwiperID = userID)

\* s.matches = append(s.matches, match)
AddMatch(ms, match) == Append(ms, match)

\* Only the first side of the match is compared.
MatchInvolves_User1Only(m, userID) == m.User1ID = userID

MatchInvolves(m, userID) == m.User1ID = userID \/ m.User2ID = userID

\* The matches with userID on either side, in append order.
GetMatchesForUser(ms, userID) ==
    SelectSeq(ms, LAMBDA m : MatchInvolves(m, userID))

\* ------------------------------------------------------------------------
\* Initial state: the freshly constructed store, no call in progress
\* ------------------------------------------------------------------------

Init ==
    /\ users = <<>>
    /\ swipes = <<>>
    /\ matches = <<>>
    /\ pc = [p \in Procs |-> "idle"]
    /\ args = [p \in Procs |-> NoArgs]
    /\ ret = [p \in Procs |-> NoRet]
    /\ feed = [f \in FeedProcs |-> NoFeed]
    /\ everRegistered = {}
    /\ mu = NoOne
    /\ op = [p \in Procs \cup FeedProcs |-> NoOp]
    /\ http = [p \in Procs |-> NoRequest]

\* ------------------------------------------------------------------------
\* UserHandler.CreateUser: a fresh uuid, then store.AddUser
\* ------------------------------------------------------------------------

\* The generated identifier may be one already in the store.
CreateUser_ReusesId(id, zone) ==
    /\ users' = AddUser(users, User(id, zone))
    /\ everRegistered' = everRegistered \cup {id}
    /\ UNCHANGED <<swipes, matches, pc, args, ret, feed, mu, op, http>>

CreateUser(id, zone) ==
    /\ id \notin DOMAIN users
    /\ users' = AddUser(users, User(id, zone))
    /\ everRegistered' = everRegistered \cup {id}
    /\ UNCHANGED <<swipes, matches, pc, args, ret, feed, mu, op, http>>

\* ------------------------------------------------------------------------
\* SwipeService.ProcessSwipe, one step per store call
\* ------------------------------------------------------------------------

\* Calls that have not yet reached their AddSwipe.
Pending == {q \in Procs : pc[q] \in {"GetSwiper", "GetSwiped", "AddSwipe"}}

\* Rule 1 left out.
RejectSelfSwipe_Missing(swiperID, swipedID) == FALSE

\* Rule 1 (self-swipe) needs no store call: it is decided on entry.
RejectSelfSwipe(swiperID, swipedID) == swiperID = swipedID

Call(p, swiperID, swipedID, action) ==
    /\ pc[p] = "idle"
    /\ args' = [args EXCEPT ![p] =
                  [swiperID |-> swiperID, swipedID |-> swipedID, action |-> action]]
    /\ IF RejectSelfSwipe(swiperID, swipedID)
       THEN /\ ret' = [ret EXCEPT ![p] =
                         [result |-> <<>>,
                          err |-> <<ValidationError(<<"cannot swipe on yourself">>)>>]]
            /\ pc' = [pc EXCEPT ![p] = "done"]
       ELSE /\ Len(swipes) + Cardinality(Pending) < MaxSwipes
            /\ ret' = ret
            /\ pc' = [pc EXCEPT ![p] = "GetSwiper"]
    /\ UNCHANGED store
    /\ UNCHANGED <<feed, everRegistered, mu, op, http>>

\* Rule 3 applied in the place of rule 2.
GetSwiper_ChecksSwiped(p) ==
    /\ pc[p] = "GetSwiper"
    /\ IF ~GetUser(users, args[p].swipedID).exists
       THEN /\ ret' = [ret EXCEPT ![p] =
                         [result |-> <<>>,
                          err |-> <<NotFoundError(
                                      <<"swiped user", args[p].swipedID, "not found">>)>>]]
            /\ pc' = [pc EXCEPT ![p] = "done"]
       ELSE /\ ret' = ret
            /\ pc' = [pc EXCEPT ![p] = "GetSwiped"]
    /\ UNCHANGED <<users, swipes, matches, args>>
    /\ UNCHANGED <<feed, everRegistered, mu, op, http>>

\* Rule 2: the swiper must exist.
GetSwiper(p) ==
    /\ pc[p] = "GetSwiper"
    /\ IF ~GetUser(users, args[p].swiperID).exists
       THEN /\ ret' = [ret EXCEPT ![p] =
                         [result |-> <<>>,
                          err |-> <<NotFoundError(
                                      <<"swiper user", args[p].swiperID, "not found">>)>>]]
            /\ pc' = [pc EXCEPT ![p] = "done"]
       ELSE /\ ret' = ret
            /\ pc' = [pc EXCEPT ![p] = "GetSwiped"]
    /\ UNCHANGED <<users, swipes, matches, args>>
    /\ UNCHANGED <<feed, everRegistered, mu, op, http>>

\* The swipe is persisted before rule 3 rejects the call.
GetSwiped_PersistsFirst(p) ==
    /\ pc[p] = "GetSwiped"
    /\ IF ~GetUser(users, args[p].swipedID).exists
       THEN /\ swipes' = AddSwipe(swipes,
                            Swipe(args[p].swiperID, args[p].swipedID, args[p].action))
            /\ ret' = [ret EXCEPT ![p] =
                         [result |-> <<>>,
                          err |-> <<NotFoundError(
                                      <<"swiped user", args[p].swipedID, "not found">>)>>]]
            /\ pc' = [pc EXCEPT ![p] = "done"]
       ELSE /\ swipes' = swipes
            /\ ret' = ret
            /\ pc' = [pc EXCEPT ![p] = "AddSwipe"]
    /\ UNCHANGED <<users, matches, args>>
    /\ UNCHANGED <<feed, everRegistered, mu, op, http>>

\* Rule 3: the swiped user must exist.
GetSwiped(p) ==
    /\ pc[p] = "GetSwiped"
    /\ IF ~GetUser(users, args[p].swipedID).exists
       THEN /\ ret' = [ret EXCEPT ![p] =
                         [result |-> <<>>,
                          err |-> <<NotFoundError(
                                      <<"swiped user", args[p].swipedID, "not found">>)>>]]
            /\ pc' = [pc EXCEPT ![p] = "done"]
       ELSE /\ ret' = ret
            /\ pc' = [pc EXCEPT ![p] = "AddSwipe"]
    /\ UNCHANGED <<users, swipes, matches, args>>
    /\ UNCHANGED <<feed, everRegistered, mu, op, http>>

\* The action guard left out: every swipe looks for a reverse swipe.
ChecksForMatch_Always(action) == TRUE

\* Only LIKE actions look for a reverse swipe.
ChecksForMatch(action) == action = SwipeActionLike

\* A retry guard: a swipe identical to one on record is not appended again.
RecordSwipe_SkipsRepeat(p) ==
    /\ pc[p] = "AddSwipe"
    /\ LET swipe == Swipe(args[p].swiperID, args[p].swipedID, args[p].action)
       IN /\ swipes' = IF \E i \in DOMAIN swipes : swipes[i] = swipe
                       THEN swipes
                       ELSE AddSwipe(swipes, swipe)
          /\ ret' = [ret EXCEPT ![p] =
                       [result |-> <<[Swipe |-> swipe, Matched |-> FALSE, Match |-> <<>>]>>,
                        err |-> <<>>]]
    /\ pc' = [pc EXCEPT ![p] =
                IF ChecksForMatch(args[p].action) THEN "FindSwipe" ELSE "done"]
    /\ UNCHANGED <<users, matches, args>>
    /\ UNCHANGED <<feed, everRegistered, mu, op, http>>

\* Record the swipe and build the result (Matched false, Match nil).
RecordSwipe(p) ==
    /\ pc[p] = "AddSwipe"
    /\ LET swipe == Swipe(args[p].swiperID, args[p].swipedID, args[p].action)
       IN /\ swipes' = AddSwipe(swipes, swipe)
          /\ ret' = [ret EXCEPT ![p] =
                       [result |-> <<[Swipe |-> swipe, Matched |-> FALSE, Match |-> <<>>]>>,
                        err |-> <<>>]]
    /\ pc' = [pc EXCEPT ![p] =
                IF ChecksForMatch(args[p].action) THEN "FindSwipe" ELSE "done"]
    /\ UNCHANGED <<users, matches, args>>
    /\ UNCHANGED <<feed, everRegistered, mu, op, http>>

\* The arguments not swapped: the lookup finds the caller's own swipe.
ReverseSwipe_SameDirection(sw, swiperID, swipedID) == FindSwipe(sw, swiperID, swipedID)

\* reverseSwipe := ss.store.FindSwipe(swipedID, swiperID)
ReverseSwipe(sw, swiperID, swipedID) == FindSwipe(sw, swipedID, swiperID)

\* The action of the reverse swipe not checked.
IsMutual_AnyAction(reverseSwipe) == reverseSwipe # <<>>

\* The reverse swipe compared with the wrong action.
IsMutual_WrongAction(reverseSwipe) ==
    /\ reverseSwipe # <<>>
    /\ reverseSwipe[1].Action = SwipeActionPass

\* reverseSwipe != nil && reverseSwipe.Action == LIKE
IsMutual(reverseSwipe) ==
    /\ reverseSwipe # <<>>
    /\ reverseSwipe[1].Action = SwipeActionLike

LookupReverse(p) ==
    /\ pc[p] = "FindSwipe"
    /\ pc' = [pc EXCEPT ![p] =
                IF IsMutual(ReverseSwipe(swipes, args[p].swiperID, args[p].swipedID))
                THEN "AddMatch" ELSE "done"]
    /\ UNCHANGED <<users, swipes, matches, args, ret>>
    /\ UNCHANGED <<feed, everRegistered, mu, op, http>>

\* The two sides stored the other way round.
NewMatch_Swapped(swiperID, swipedID) == Match(swipedID, swiperID)

\* match := Match{User1ID: swiperID, User2ID: swipedID}
NewMatch(swiperID, swipedID) == Match(swiperID, swipedID)

RecordMatch(p) ==
    /\ pc[p] = "AddMatch"
    /\ LET match == NewMatch(args[p].swiperID, args[p].swipedID)
       IN /\ matches' = AddMatch(matches, match)
          /\ ret' = [ret EXCEPT ![p] =
                       [result |-> <<[Swipe |-> ret[p].result[1].Swipe,
                                      Matched |-> TRUE,
                                      Match |-> <<match>>]>>,
                        err |-> <<>>]]
    /\ pc' = [pc EXCEPT ![p] = "done"]
    /\ UNCHANGED <<users, swipes, args>>
    /\ UNCHANGED <<feed, everRegistered, mu, op, http>>

\* The caller takes the returned pair; the goroutine is free for a new request.
Return(p) ==
    /\ pc[p] = "done"
    /\ pc' = [pc EXCEPT ![p] = "idle"]
    /\ args' = [args EXCEPT ![p] = NoArgs]
    /\ ret' = [ret EXCEPT ![p] = NoRet]
    /\ UNCHANGED store
    /\ UNCHANGED <<feed, everRegistered, mu, op, http>>

\* ------------------------------------------------------------------------
\* InMemoryStore.Reset: all three collections replaced by empty ones
\* ------------------------------------------------------------------------

Reset ==
    /\ users' = <<>>
    /\ swipes' = <<>>
    /\ matches' = <<>>
    /\ UNCHANGED <<pc, args, ret, feed, everRegistered, mu, op, http>>

\* ------------------------------------------------------------------------
\* FeedService.GetFeed, one step per store call
\* ------------------------------------------------------------------------

\* fmt.Errorf: an error value of no declared kind.
Errorf(msg) == [kind |-> "errorString", Message |-> msg]

\* Only LIKE swipes count as seen.
SeenSet_LikesOnly(sw) ==
    {sw[i].SwipedID : i \in {j \in DOMAIN sw : sw[j].Action = SwipeActionLike}}

\* The set is keyed by the swiper instead of the swiped user.
SeenSet_BySwiper(sw) == {sw[i].SwiperID : i \in DOMAIN sw}

\* seenSet[swipe.SwipedID] = struct{}{} for every swipe of the requester
SeenSet(sw) == {sw[i].SwipedID : i \in DOMAIN sw}

\* The zone test compares the candidate with itself.
SameZone_Self(candidate, requestingUser) == candidate.ZoneID = candidate.ZoneID

\* Tier 1: the candidate is in the requester's zone.
SameZone(candidate, requestingUser) == candidate.ZoneID = requestingUser.ZoneID

\* Tier 2: the candidate is not the requester.
NotSelf(candidate, userID) == candidate.ID # userID

\* Tier 3: the requester has not swiped on the candidate.
NotSeen(candidate, seenSet) == candidate.ID \notin seenSet

\* The pass stops at the first rejected candidate instead of skipping it.
FilterFeed_BreaksOnReject(allUsers, requestingUser, userID, seenSet) ==
    LET Rejected(c) == ~(/\ SameZone(c, requestingUser)
                         /\ NotSelf(c, userID)
                         /\ NotSeen(c, seenSet))
        bad == {i \in DOMAIN allUsers : Rejected(allUsers[i])}
        n == IF bad = {} THEN Len(allUsers)
             ELSE (CHOOSE i \in bad : \A j \in bad : i <= j) - 1
        kept == SubSeq(allUsers, 1, n)
    IN IF kept = <<>> THEN NilSlice ELSE SliceOf(kept)

\* One pass over allUsers, appending to a nil slice.
FilterFeed(allUsers, requestingUser, userID, seenSet) ==
    LET kept == SelectSeq(allUsers,
                    LAMBDA c : /\ SameZone(c, requestingUser)
                               /\ NotSelf(c, userID)
                               /\ NotSeen(c, seenSet))
    IN IF kept = <<>> THEN NilSlice ELSE SliceOf(kept)

\* The nil check is left out.
NormaliseFeed_Skipped(fd) == fd

\* if feed == nil { feed = []models.User{} }
NormaliseFeed(fd) == IF fd.isNil THEN SliceOf(<<>>) ELSE fd

FeedCall(f, userID) ==
    /\ feed[f].pc = "idle"
    /\ feed' = [feed EXCEPT ![f] = [NoFeed EXCEPT !.pc = "GetUser", !.userID = userID]]
    /\ UNCHANGED <<users, swipes, matches, pc, args, ret, everRegistered, mu, op, http>>

\* An unknown requester gets an empty feed and no error.
FeedGetUser_Lenient(f) ==
    /\ feed[f].pc = "GetUser"
    /\ LET r == GetUser(users, feed[f].userID)
       IN feed' = [feed EXCEPT ![f] =
                     IF ~r.exists
                     THEN [@ EXCEPT !.pc = "done", !.feed = SliceOf(<<>>)]
                     ELSE [@ EXCEPT !.pc = "GetAllUsers", !.requestingUser = r.user]]
    /\ UNCHANGED <<users, swipes, matches, pc, args, ret, everRegistered, mu, op, http>>

\* Step 0: the requester must exist.
FeedGetUser(f) ==
    /\ feed[f].pc = "GetUser"
    /\ LET r == GetUser(users, feed[f].userID)
       IN feed' = [feed EXCEPT ![f] =
                     IF ~r.exists
                     THEN [@ EXCEPT !.pc = "done",
                                    !.feed = NilSlice,
                                    !.err = <<Errorf(<<"user", feed[f].userID, "not found">>)>>]
                     ELSE [@ EXCEPT !.pc = "GetAllUsers", !.requestingUser = r.user]]
    /\ UNCHANGED <<users, swipes, matches, pc, args, ret, everRegistered, mu, op, http>>

\* Step 1: snapshot of all users.
FeedGetAllUsers(f) ==
    /\ feed[f].pc = "GetAllUsers"
    /\ \E all \in GetAllUsers(users) :
          feed' = [feed EXCEPT ![f] = [@ EXCEPT !.pc = "GetSwipesByUser", !.allUsers = all]]
    /\ UNCHANGED <<users, swipes, matches, pc, args, ret, everRegistered, mu, op, http>>

\* Steps 2 and 3: the requester's swipes, the seen-set, the filter pass and
\* the nil-to-empty replacement; all after the last store call.
FeedGetSwipes(f) ==
    /\ feed[f].pc = "GetSwipesByUser"
    /\ LET seenSet == SeenSet(GetSwipesByUser(swipes, feed[f].userID))
           fd == FilterFeed(feed[f].allUsers, feed[f].requestingUser,
                            feed[f].userID, seenSet)
       IN feed' = [feed EXCEPT ![f] = [@ EXCEPT !.pc = "done", !.feed = NormaliseFeed(fd)]]
    /\ UNCHANGED <<users, swipes, matches, pc, args, ret, everRegistered, mu, op, http>>

\* The caller takes the returned pair.
FeedReturn(f) ==
    /\ feed[f].pc = "done"
    /\ feed' = [feed EXCEPT ![f] = NoFeed]
    /\ UNCHANGED <<users, swipes, matches, pc, args, ret, everRegistered, mu, op, http>>

\* ------------------------------------------------------------------------
\* InMemoryStore methods called directly: s.mu.Lock(), the body, and the
\* deferred s.mu.Unlock(). A body that reads a field and then assigns it
\* takes two steps, Reset's three assignments take three.
\* ------------------------------------------------------------------------

MaxMatches == 2

\* The slice a loop builds by appending to `var result []T`: nil when the
\* loop appended nothing.
Collected(elems) == IF elems = <<>> THEN NilSlice ELSE SliceOf(elems)

\* Lock() proceeds whatever the mutex says.
MutexFree_Always(p) == TRUE

\* Lock() proceeds only when nobody holds the mutex.
MutexFree(p) == mu = NoOne

Holds(p) == op[p].pc \notin {"idle", "Lock", "done"}

\* AddSwipe and AddMatch calls that have not appended yet.
Appending(name) ==
    {p \in Procs : op[p].name = name /\ op[p].pc \in {"Lock", "Load", "Store"}}

StoreCall(p, name, arg) ==
    /\ op[p].pc = "idle"
    /\ name = "AddSwipe" => Len(swipes) + Cardinality(Appending(name)) < MaxSwipes
    /\ name = "AddMatch" => Len(matches) + Cardinality(Appending(name)) < MaxMatches
    /\ op' = [op EXCEPT ![p] = [NoOp EXCEPT !.pc = "Lock", !.name = name, !.arg = arg]]
    /\ UNCHANGED <<users, swipes, matches, pc, args, ret, feed, everRegistered, mu, http>>

FirstStep(name) ==
    CASE name \in {"AddUser"} -> "Store"
      [] name \in {"AddSwipe", "AddMatch"} -> "Load"
      [] name = "Reset" -> "ResetUsers"
      [] OTHER -> "Read"

\* s.mu.Lock()
Lock(p) ==
    /\ op[p].pc = "Lock"
    /\ MutexFree(p)
    /\ mu' = p
    /\ op' = [op EXCEPT ![p] = [@ EXCEPT !.pc = FirstStep(op[p].name),
                                        !.atLock = store]]
    /\ UNCHANGED <<users, swipes, matches, pc, args, ret, feed, everRegistered, http>>

\* s.users[user.ID] = user
AddUserBody(p) ==
    /\ op[p].pc = "Store" /\ op[p].name = "AddUser"
    /\ users' = AddUser(users, op[p].arg)
    /\ everRegistered' = everRegistered \cup {op[p].arg.ID}
    /\ op' = [op EXCEPT ![p] = [@ EXCEPT !.pc = "Unlock"]]
    /\ UNCHANGED <<swipes, matches, pc, args, ret, feed, mu, http>>

\* append(s.swipes, swipe) / append(s.matches, match): the field is read ...
AppendLoad(p) ==
    /\ op[p].pc = "Load"
    /\ op' = [op EXCEPT ![p] =
                [@ EXCEPT !.pc = "Store",
                          !.local = IF op[p].name = "AddSwipe" THEN swipes ELSE matches]]
    /\ UNCHANGED <<users, swipes, matches, pc, args, ret, feed, everRegistered, mu, http>>

\* ... and the grown slice is assigned back: s.swipes = ...
AddSwipeBody(p) ==
    /\ op[p].pc = "Store" /\ op[p].name = "AddSwipe"
    /\ swipes' = AddSwipe(op[p].local, op[p].arg)
    /\ op' = [op EXCEPT ![p] = [@ EXCEPT !.pc = "Unlock"]]
    /\ UNCHANGED <<users, matches, pc, args, ret, feed, everRegistered, mu, http>>

\* s.matches = ...
AddMatchBody(p) ==
    /\ op[p].pc = "Store" /\ op[p].name = "AddMatch"
    /\ matches' = AddMatch(op[p].local, op[p].arg)
    /\ op' = [op EXCEPT ![p] = [@ EXCEPT !.pc = "Unlock"]]
    /\ UNCHANGED <<users, swipes, pc, args, ret, feed, everRegistered, mu, http>>

\* The values a reading method can return from the fields as they are.
Reads(name, arg, us, sw, ms) ==
    CASE name = "GetUser" -> {GetUser(us, arg)}
      [] name = "GetAllUsers" -> {SliceOf(all) : all \in GetAllUsers(us)}
      [] name = "GetSwipesByUser" -> {Collected(GetSwipesByUser(sw, arg))}
      [] name = "FindSwipe" -> {FindSwipe(sw, arg[1], arg[2])}
      [] name = "GetMatchesForUser" -> {Collected(GetMatchesForUser(ms, arg))}

\* The body of GetUser, GetAllUsers, GetSwipesByUser, FindSwipe and
\* GetMatchesForUser.
ReadBody(p) ==
    /\ op[p].pc = "Read"
    /\ \E r \in Reads(op[p].name, op[p].arg, users, swipes, matches) :
          op' = [op EXCEPT ![p] = [@ EXCEPT !.pc = "Unlock", !.result = <<r>>]]
    /\ UNCHANGED <<users, swipes, matches, pc, args, ret, feed, everRegistered, mu, http>>

\* s.users = make(map[uuid.UUID]models.User)
ResetUsers(p) ==
    /\ op[p].pc = "ResetUsers"
    /\ users' = <<>>
    /\ op' = [op EXCEPT ![p] = [@ EXCEPT !.pc = "ResetSwipes"]]
    /\ UNCHANGED <<swipes, matches, pc, args, ret, feed, everRegistered, mu, http>>

\* s.swipes = make([]models.Swipe, 0)
ResetSwipes(p) ==
    /\ op[p].pc = "ResetSwipes"
    /\ swipes' = <<>>
    /\ op' = [op EXCEPT ![p] = [@ EXCEPT !.pc = "ResetMatches"]]
    /\ UNCHANGED <<users, matches, pc, args, ret, feed, everRegistered, mu, http>>

\* s.matches = make([]models.Match, 0)
ResetMatches(p) ==
    /\ op[p].pc = "ResetMatches"
    /\ matches' = <<>>
    /\ op' = [op EXCEPT ![p] = [@ EXCEPT !.pc = "Unlock"]]
    /\ UNCHANGED <<users, swipes, pc, args, ret, feed, everRegistered, mu, http>>

\* The deferred Unlock() left out: the method returns with the mutex held.
Unlock_KeepsMutex(p) ==
    /\ op[p].pc = "Unlock"
    /\ op' = [op EXCEPT ![p] = [@ EXCEPT !.pc = "done",
                                        !.local = <<>>, !.atLock = <<>>]]
    /\ UNCHANGED <<users, swipes, matches, pc, args, ret, feed, everRegistered, mu, http>>

\* The deferred s.mu.Unlock(), on return.
Unlock(p) ==
    /\ op[p].pc = "Unlock"
    /\ mu' = NoOne
    /\ op' = [op EXCEPT ![p] = [@ EXCEPT !.pc = "done",
                                        !.local = <<>>, !.atLock = <<>>]]
    /\ UNCHANGED <<users, swipes, matches, pc, args, ret, feed, everRegistered, http>>

\* The caller takes the returned value.
StoreReturn(p) ==
    /\ op[p].pc = "done"
    /\ op' = [op EXCEPT ![p] = NoOp]
    /\ UNCHANGED <<users, swipes, matches, pc, args, ret, feed, everRegistered, mu, http>>

\* ------------------------------------------------------------------------
\* Specifications
\* ------------------------------------------------------------------------

Register(profiles) == \E pr \in profiles : CreateUser(pr[1], pr[2])

Begin ==
    \E p \in Procs, swiperID \in UserIds, swipedID \in UserIds, action \in SwipeActions :
        Call(p, swiperID, swipedID, action)

Step ==
    \E p \in Procs :
        \/ GetSwiper(p)
        \/ GetSwiped(p)
        \/ RecordSwipe(p)
        \/ LookupReverse(p)
        \/ RecordMatch(p)
        \/ Return(p)

\* Concurrent callers, no Reset.
Next == Register(RaceProfiles) \/ Begin \/ Step

Spec == Init /\ [][Next]_vars

\* One operation at a time: a request starts only when no call is in progress.
Quiet == \A p \in Procs : pc[p] = "idle"

NextSeq == (Quiet /\ Register(Profiles)) \/ (Quiet /\ Begin) \/ Step

SpecSeq == Init /\ [][NextSeq]_vars

\* Registration requests explored with the feed: by renaming, every way of
\* splitting up to three users over zones.
FeedProfiles == {<<"a", "x">>, <<"b", "x">>, <<"c", "x">>, <<"c", "y">>}

FeedBegin == \E f \in FeedProcs, userID \in UserIds : FeedCall(f, userID)

FeedStep ==
    \E f \in FeedProcs :
        \/ FeedGetUser(f)
        \/ FeedGetAllUsers(f)
        \/ FeedGetSwipes(f)
        \/ FeedReturn(f)

QuietAll == Quiet /\ \A f \in FeedProcs : feed[f].pc = "idle"

\* The requests of one swipe caller.
BeginBy(p) ==
    \E swiperID \in UserIds, swipedID \in UserIds, action \in SwipeActions :
        Call(p, swiperID, swipedID, action)

StepBy(p) ==
    \/ GetSwiper(p)
    \/ GetSwiped(p)
    \/ RecordSwipe(p)
    \/ LookupReverse(p)
    \/ RecordMatch(p)
    \/ Return(p)

\* Every operation of the service, Reset included, one at a time (which
\* goroutine serves a request makes no difference then: one swipe caller).
NextOps ==
    \/ (QuietAll /\ Register(FeedProfiles))
    \/ (QuietAll /\ BeginBy("p1"))
    \/ (QuietAll /\ FeedBegin)
    \/ (QuietAll /\ Reset)
    \/ StepBy("p1")
    \/ FeedStep

SpecOps == Init /\ [][NextOps]_vars

\* A feed caller running concurrently with a swipe caller and with
\* registrations, no Reset.
NextFeed ==
    \/ Register(RaceProfiles)
    \/ BeginBy("p1")
    \/ StepBy("p1")
    \/ FeedBegin
    \/ FeedStep

SpecFeed == Init /\ [][NextFeed]_vars

\* The store calls of caller p, with arguments from the given sets.
StoreBegin(p, userArgs, swipeArgs, matchArgs, ids) ==
    \/ \E u \in userArgs : StoreCall(p, "AddUser", u)
    \/ \E id \in ids : StoreCall(p, "GetUser", id)
    \/ StoreCall(p, "GetAllUsers", <<>>)
    \/ \E s \in swipeArgs : StoreCall(p, "AddSwipe", s)
    \/ \E id \in ids : StoreCall(p, "GetSwipesByUser", id)
    \/ \E s \in swipeArgs :
          \/ StoreCall(p, "FindSwipe", <<s.SwiperID, s.SwipedID>>)
          \/ StoreCall(p, "FindSwipe", <<s.SwipedID, s.SwiperID>>)
    \/ \E m \in matchArgs : StoreCall(p, "AddMatch", m)
    \/ \E id \in ids : StoreCall(p, "GetMatchesForUser", id)
    \/ StoreCall(p, "Reset", <<>>)

StoreStep(p) ==
    \/ Lock(p)
    \/ AddUserBody(p)
    \/ AppendLoad(p)
    \/ AddSwipeBody(p)
    \/ AddMatchBody(p)
    \/ ReadBody(p)
    \/ ResetUsers(p)
    \/ ResetSwipes(p)
    \/ ResetMatches(p)
    \/ Unlock(p)
    \/ StoreReturn(p)

\* Arguments of the store calls of one caller: a user that can be
\* overwritten, repeated and opposite swipes, matches that share a user.
StoreUsers == {User("a", "x"), User("a", "y"), User("b", "x")}
StoreSwipes ==
    {Swipe("a", "b", SwipeActionLike), Swipe("a", "b", SwipeActionPass),
     Swipe("b", "a", SwipeActionLike)}
StoreMatches == {Match("a", "b"), Match("b", "c")}

\* One caller making store calls one after the other.
NextStore ==
    \/ StoreBegin("p1", StoreUsers, StoreSwipes, StoreMatches, UserIds)
    \/ StoreStep("p1")

SpecStore == Init /\ [][NextStore]_vars

\* Arguments of the store calls of concurrent callers.
RaceUsers == {User("a", "x")}
RaceSwipes == {Swipe("a", "b", SwipeActionLike)}
RaceMatches == {Match("a", "b")}

\* Concurrent callers of the store's methods.
NextMutex ==
    \E p \in Procs :
        \/ StoreBegin(p, RaceUsers, RaceSwipes, RaceMatches, {"a"})
        \/ StoreStep(p)

SpecMutex == Init /\ [][NextMutex]_vars

\* Reset running concurrently with a swipe caller and with registrations.
NextReset ==
    \/ Register(RaceProfiles)
    \/ BeginBy("p1")
    \/ StepBy("p1")
    \/ Reset

SpecReset == Init /\ [][NextReset]_vars

\* ------------------------------------------------------------------------
\* Vocabulary of the properties
\* ------------------------------------------------------------------------

Between(r, x, y, from, to) ==
    \/ (r[from] = x /\ r[to] = y)
    \/ (r[from] = y /\ r[to] = x)

\* The swipes between x and y, in either direction, in append order.
PairSwipes(x, y) ==
    SelectSeq(swipes, LAMBDA s : Between(s, x, y, "SwiperID", "SwipedID"))

\* The matches of the unordered pair {x, y}, in append order.
PairOf(ms, x, y) ==
    SelectSeq(ms, LAMBDA m : Between(m, x, y, "User1ID", "User2ID"))

PairMatches(x, y) == PairOf(matches, x, y)

HasSwipe(swiperID, swipedID, action) ==
    \E i \in DOMAIN swipes : swipes[i] = Swipe(swiperID, swipedID, action)

\* Caller p has returned from ProcessSwipe(swiperID, swipedID, action).
Returned(p, swiperID, swipedID, action) ==
    /\ pc[p] = "done"
    /\ args[p] = [swiperID |-> swiperID, swipedID |-> swipedID, action |-> action]

Succeeded(p) == pc[p] = "done" /\ ret[p].err = <<>> /\ ret[p].result # <<>>

ReturnedMatched(p) == Succeeded(p) /\ ret[p].result[1].Matched

\* ------------------------------------------------------------------------
\* C1: sequentially, LIKE a->b followed by LIKE b->a (no earlier swipe
\* between the two) returns matched=true on the second call, and both users
\* then see exactly one match for the pair, the same record for both.
\* ------------------------------------------------------------------------

C1_SecondLikeMatches ==
    \A p \in Procs, a \in UserIds, b \in UserIds :
        ( /\ a # b
          /\ Returned(p, b, a, SwipeActionLike)
          /\ PairSwipes(a, b) = <<Swipe(a, b, SwipeActionLike),
                                  Swipe(b, a, SwipeActionLike)>> )
        => /\ ReturnedMatched(p)
           /\ Len(PairOf(GetMatchesForUser(matches, a), a, b)) = 1
           /\ Len(PairOf(GetMatchesForUser(matches, b), a, b)) = 1
           /\ PairOf(GetMatchesForUser(matches, a), a, b)
                = PairOf(GetMatchesForUser(matches, b), a, b)
           /\ ret[p].result[1].Match
                = PairOf(GetMatchesForUser(matches, a), a, b)

C1_Witness ==
    \E p \in Procs :
        /\ Returned(p, "b", "a", SwipeActionLike)
        /\ PairSwipes("a", "b") = <<Swipe("a", "b", SwipeActionLike),
                                    Swipe("b", "a", SwipeActionLike)>>
        /\ ReturnedMatched(p)
        /\ GetMatchesForUser(matches, "a") = <<Match("b", "a")>>
        /\ GetMatchesForUser(matches, "b") = <<Match("b", "a")>>

\* ------------------------------------------------------------------------
\* C2: under any interleaving of concurrent calls, every Match (u1, u2) of
\* the match log is backed by a LIKE u1->u2 and a LIKE u2->u1 in the swipe
\* log, from the step that appends the Match onward.
\* ------------------------------------------------------------------------

Backed(m) ==
    /\ HasSwipe(m.User1ID, m.User2ID, SwipeActionLike)
    /\ HasSwipe(m.User2ID, m.User1ID, SwipeActionLike)

C2_MatchesBackedByLikes == \A i \in DOMAIN matches : Backed(matches[i])

\* A match appended while the other caller is in the middle of its own call.
C2_Witness ==
    /\ matches # <<>>
    /\ \E p \in Procs : pc[p] \in {"FindSwipe", "AddMatch"}

\* ------------------------------------------------------------------------
\* C3: with calls executed one at a time, the match log holds at most one
\* Match per unordered pair, also when a LIKE is re-submitted after the
\* pair has matched.
\* ------------------------------------------------------------------------

C3_AtMostOneMatchPerPair ==
    \A a \in UserIds, b \in UserIds : Len(PairMatches(a, b)) <= 1

\* ------------------------------------------------------------------------
\* C4: persist-then-detect is not atomic.  When two concurrent calls
\* LIKE a->b and LIKE b->a (no earlier swipe between a and b) have both run
\* AddSwipe before either ran FindSwipe, each of them finds the other's
\* swipe, appends a Match and returns matched=true: two Matches for {a, b}.
\* ------------------------------------------------------------------------

\* p has recorded its swipe and has not come back without a match.
InRace(p) == pc[p] \in {"FindSwipe", "AddMatch"} \/ ReturnedMatched(p)

\* Both swipes are on record and neither caller has looked up the reverse
\* swipe and found nothing: both AddSwipe steps preceded both FindSwipe steps.
RaceState(p, q, a, b) ==
    /\ p # q /\ a # b
    /\ args[p] = [swiperID |-> a, swipedID |-> b, action |-> SwipeActionLike]
    /\ args[q] = [swiperID |-> b, swipedID |-> a, action |-> SwipeActionLike]
    /\ Len(PairSwipes(a, b)) = 2
    /\ InRace(p) /\ InRace(q)

RaceCallers == {pq \in Procs \X Procs : pq[1] # pq[2]}
RacePairs == {ab \in UserIds \X UserIds : ab[1] # ab[2]}

C4_RaceCompletes ==
    \A pq \in RaceCallers, ab \in RacePairs :
        ( /\ RaceState(pq[1], pq[2], ab[1], ab[2])
          /\ pc[pq[1]] # "done"
          /\ pc'[pq[1]] # pc[pq[1]] )
        => RaceState(pq[1], pq[2], ab[1], ab[2])'

C4_RaceOutcome ==
    \A pq \in RaceCallers, ab \in RacePairs :
        ( /\ RaceState(pq[1], pq[2], ab[1], ab[2])
          /\ pc[pq[1]] = "done" /\ pc[pq[2]] = "done" )
        => /\ Len(PairMatches(ab[1], ab[2])) = 2
           /\ ReturnedMatched(pq[1]) /\ ReturnedMatched(pq[2])

C4_RaceYieldsTwoMatches == [][C4_RaceCompletes]_vars /\ []C4_RaceOutcome

C4_Witness ==
    /\ RaceState("p1", "p2", "a", "b")
    /\ pc["p1"] = "done" /\ pc["p2"] = "done"
    /\ ReturnedMatched("p1") /\ ReturnedMatched("p2")
    /\ swipes = <<Swipe("a", "b", SwipeActionLike), Swipe("b", "a", SwipeActionLike)>>
    /\ matches = <<Match("a", "b"), Match("b", "a")>>

\* ------------------------------------------------------------------------
\* C5: two concurrent calls LIKE a->b and LIKE b->a (no earlier swipe
\* between a and b) never leave the pair without a Match: once both have
\* returned the match log holds one or two Matches for {a, b}.
\* ------------------------------------------------------------------------

\* Both callers hold the results of opposite LIKE calls whose swipes are the
\* only swipes between a and b.
BothReturned(p, q, a, b) ==
    /\ p # q /\ a # b
    /\ Returned(p, a, b, SwipeActionLike) /\ Succeeded(p)
    /\ Returned(q, b, a, SwipeActionLike) /\ Succeeded(q)
    /\ Len(PairSwipes(a, b)) = 2

\* The claim as stated: both calls have returned and no Match is on record.
C5_ZeroMatchesAfterRace ==
    \A pq \in RaceCallers, ab \in RacePairs :
        BothReturned(pq[1], pq[2], ab[1], ab[2])
        => Len(PairMatches(ab[1], ab[2])) = 0

C5_RaceLeavesOneOrTwo ==
    \A pq \in RaceCallers, ab \in RacePairs :
        BothReturned(pq[1], pq[2], ab[1], ab[2])
        => /\ Len(PairMatches(ab[1], ab[2])) \in {1, 2}
           /\ ReturnedMatched(pq[1]) \/ ReturnedMatched(pq[2])

\* The first caller found no reverse swipe; the second one completed the pair.
C5_Witness ==
    /\ BothReturned("p1", "p2", "a", "b")
    /\ Len(PairMatches("a", "b")) = 1
    /\ ~ReturnedMatched("p1")

\* ------------------------------------------------------------------------
\* C6: with calls executed one at a time, a LIKE a->b issued when the swipe
\* log holds a LIKE b->a returns matched=true and appends a Match for
\* {a, b}, also when b passed on a before liking a.
\* ------------------------------------------------------------------------

C6_LikeBackAlwaysMatches ==
    \A p \in Procs, a \in UserIds, b \in UserIds :
        ( /\ a # b
          /\ Returned(p, a, b, SwipeActionLike) /\ Succeeded(p)
          /\ HasSwipe(b, a, SwipeActionLike) )
        => /\ ReturnedMatched(p)
           /\ matches # <<>>
           /\ matches[Len(matches)] = Match(a, b)

\* ------------------------------------------------------------------------
\* C7: a PASS call never creates a match.  No step of a PASS call changes
\* the match log, it returns matched=false with a nil Match, and after
\* LIKE a->b followed by PASS b->a neither a nor b has a match.
\* ------------------------------------------------------------------------

\* Caller p takes a step of a call whose action is PASS.
PassStep(p) ==
    /\ pc'[p] # pc[p]
    /\ \/ args[p].action = SwipeActionPass
       \/ args'[p].action = SwipeActionPass

C7_PassStepKeepsMatches ==
    \A p \in Procs : PassStep(p) => matches' = matches

C7_PassReturnsUnmatched ==
    \A p \in Procs, a \in UserIds, b \in UserIds :
        /\ (Returned(p, b, a, SwipeActionPass) /\ Succeeded(p))
           => /\ ~ret[p].result[1].Matched
              /\ ret[p].result[1].Match = <<>>
        /\ ( /\ Returned(p, b, a, SwipeActionPass)
             /\ swipes = <<Swipe(a, b, SwipeActionLike), Swipe(b, a, SwipeActionPass)>> )
           => /\ GetMatchesForUser(matches, a) = <<>>
              /\ GetMatchesForUser(matches, b) = <<>>

C7_PassNeverMatches == [][C7_PassStepKeepsMatches]_vars /\ []C7_PassReturnsUnmatched

\* A PASS answered to a LIKE has returned, and nobody has a match.
C7_Witness ==
    \E p \in Procs :
        /\ Returned(p, "b", "a", SwipeActionPass) /\ Succeeded(p)
        /\ swipes = <<Swipe("a", "b", SwipeActionLike), Swipe("b", "a", SwipeActionPass)>>
        /\ matches = <<>>

\* ------------------------------------------------------------------------
\* C8: ProcessSwipe(a, a, action) fails with the validation error for every
\* identifier a, registered or not, for LIKE and for PASS; the call makes no
\* store call and appends no swipe.
\* ------------------------------------------------------------------------

SelfSwipeError == <<ValidationError(<<"cannot swipe on yourself">>)>>

\* Caller p enters ProcessSwipe with swiperID = swipedID.
SelfCall(p) ==
    /\ pc[p] = "idle" /\ pc'[p] # "idle"
    /\ args'[p].swiperID = args'[p].swipedID

C8_SelfCallRejected ==
    \A p \in Procs :
        SelfCall(p) => /\ pc'[p] = "done"
                       /\ ret'[p] = [result |-> <<>>, err |-> SelfSwipeError]
                       /\ swipes' = swipes

C8_SelfSwipeFails ==
    \A p \in Procs :
        (pc[p] # "idle" /\ args[p].swiperID = args[p].swipedID)
        => /\ pc[p] = "done"
           /\ ret[p] = [result |-> <<>>, err |-> SelfSwipeError]

C8_SelfSwipeRejected == [][C8_SelfCallRejected]_vars /\ []C8_SelfSwipeFails

\* A self-PASS of an unregistered identifier and a self-LIKE of a registered
\* one have both been rejected.
C8_Witness ==
    /\ "a" \in DOMAIN users /\ "c" \notin DOMAIN users
    /\ Returned("p1", "c", "c", SwipeActionPass)
    /\ Returned("p2", "a", "a", SwipeActionLike)
    /\ ret["p1"].err = SelfSwipeError /\ ret["p2"].err = SelfSwipeError

\* ------------------------------------------------------------------------
\* C9: the checks run in the order self-swipe, swiper exists, swiped exists
\* and the first failing one decides the error.  With swiperID # swipedID
\* and calls executed one at a time: an unregistered swiper gives not-found
\* naming the swiper, whether or not the swiped user is registered; a
\* registered swiper with an unregistered swiped user gives not-found
\* naming the swiped user.
\* ------------------------------------------------------------------------

SwiperNotFound(id) == <<NotFoundError(<<"swiper user", id, "not found">>)>>
SwipedNotFound(id) == <<NotFoundError(<<"swiped user", id, "not found">>)>>

C9_FirstFailingRuleWins ==
    \A p \in Procs :
        /\ (pc[p] = "done" /\ args[p].swiperID = args[p].swipedID)
           => ret[p].err = SelfSwipeError
        /\ (pc[p] = "done" /\ args[p].swiperID # args[p].swipedID)
           => /\ args[p].swiperID \notin DOMAIN users
                   => ret[p].err = SwiperNotFound(args[p].swiperID)
              /\ (args[p].swiperID \in DOMAIN users /\ args[p].swipedID \notin DOMAIN users)
                   => ret[p].err = SwipedNotFound(args[p].swipedID)
              /\ (args[p].swiperID \in DOMAIN users /\ args[p].swipedID \in DOMAIN users)
                   => ret[p].err = <<>>

\* Neither user is registered: the error names the swiper.
C9_Witness ==
    \E p \in Procs :
        /\ Returned(p, "a", "b", SwipeActionLike)
        /\ "a" \notin DOMAIN users /\ "b" \notin DOMAIN users
        /\ ret[p].err = SwiperNotFound("a")

\* ------------------------------------------------------------------------
\* C10: a ProcessSwipe call that returns an error returns a nil result and
\* has changed neither the users nor the swipe log nor the match log.  An
\* error is returned only by the entry check or by one of the two GetUser
\* steps, and no step of a call up to and including these changes the store.
\* ------------------------------------------------------------------------

Validating(p) == pc[p] \in {"idle", "GetSwiper", "GetSwiped"}

C10_ValidationKeepsStore ==
    \A p \in Procs :
        (Validating(p) /\ pc'[p] # pc[p]) => UNCHANGED store

C10_ErrorOnlyFromValidation ==
    \A p \in Procs :
        (ret[p].err = <<>> /\ ret'[p].err # <<>>) => Validating(p)

C10_ErrorHasNoResult ==
    \A p \in Procs :
        ret[p].err # <<>> => (pc[p] = "done" /\ ret[p].result = <<>>)

C10_ErrorLeavesStoreUntouched ==
    /\ [][C10_ValidationKeepsStore /\ C10_ErrorOnlyFromValidation]_vars
    /\ []C10_ErrorHasNoResult

\* The third check has rejected a call on a store that already holds swipes.
C10_Witness ==
    \E p \in Procs :
        /\ pc[p] = "done"
        /\ ret[p] = [result |-> <<>>, err |-> SwipedNotFound("c")]
        /\ swipes # <<>>

\* ------------------------------------------------------------------------
\* C11: a call that passes validation appends exactly one swipe
\* (swiperID, swipedID, action) to the end of the swipe log, for LIKE and
\* PASS, matched or not, also when the same ordered pair was swiped before;
\* it appends at most one Match.
\* ------------------------------------------------------------------------

OwnSwipe(p) == Swipe(args[p].swiperID, args[p].swipedID, args[p].action)

Moves(p) == pc'[p] # pc[p]

C11_StepEffect ==
    \A p \in Procs :
        Moves(p) =>
            \* validation passed: the next store call is AddSwipe
            /\ (pc[p] = "GetSwiped" /\ ret'[p].err = <<>>) => pc'[p] = "AddSwipe"
            \* AddSwipe appends the call's swipe, whatever the log holds
            /\ pc[p] = "AddSwipe" => swipes' = Append(swipes, OwnSwipe(p))
            \* no other step of the call touches the swipe log
            /\ pc[p] # "AddSwipe" => swipes' = swipes
            \* the match log grows only by the call's last step, by one entry
            /\ matches' # matches
                 => /\ pc[p] = "AddMatch" /\ pc'[p] = "done"
                    /\ Len(matches') = Len(matches) + 1
                    /\ SubSeq(matches', 1, Len(matches)) = matches

C11_SuccessRecorded ==
    \A p \in Procs :
        Succeeded(p) => \E i \in DOMAIN swipes : swipes[i] = OwnSwipe(p)

C11_OneSwipePerCall == [][C11_StepEffect]_vars /\ []C11_SuccessRecorded

\* The same ordered pair swiped twice, and the second call succeeded.
C11_Witness ==
    \E p \in Procs :
        /\ Succeeded(p)
        /\ Returned(p, "a", "b", SwipeActionPass)
        /\ swipes = <<Swipe("a", "b", SwipeActionPass), Swipe("a", "b", SwipeActionPass)>>

\* ------------------------------------------------------------------------
\* C12: in a successful result Matched holds exactly when the Match pointer
\* is non-nil; the Match is then the record this call appended, with
\* User1ID the swiper and User2ID the swiped user; the returned Swipe is the
\* swipe this call appended.
\* ------------------------------------------------------------------------

C12_ResultShape ==
    \A p \in Procs :
        Succeeded(p) =>
            LET r == ret[p].result[1]
            IN /\ r.Matched <=> r.Match # <<>>
               /\ r.Swipe = OwnSwipe(p)
               /\ r.Match # <<>>
                    => /\ r.Match[1] = Match(args[p].swiperID, args[p].swipedID)
                       /\ \E i \in DOMAIN matches : matches[i] = r.Match[1]

C12_ResultIsWhatWasAppended ==
    \A p \in Procs :
        /\ (Moves(p) /\ pc[p] = "AddSwipe")
             => swipes' = Append(swipes, ret'[p].result[1].Swipe)
        /\ (Moves(p) /\ pc[p] = "AddMatch")
             => /\ ret'[p].result[1].Matched
                /\ matches' = Append(matches, ret'[p].result[1].Match[1])

C12_ResultContract == [][C12_ResultIsWhatWasAppended]_vars /\ []C12_ResultShape

C12_Witness ==
    /\ ReturnedMatched("p1")
    /\ ret["p1"].result[1].Match = <<Match("b", "a")>>
    /\ Succeeded("p2") /\ ~ReturnedMatched("p2")
    /\ ret["p2"].result[1].Match = <<>>

\* ------------------------------------------------------------------------
\* Vocabulary of the feed properties
\* ------------------------------------------------------------------------

FeedDone(f) == feed[f].pc = "done"

\* GetFeed is about to return a feed and a nil error.
FeedOk(f) == FeedDone(f) /\ feed[f].err = <<>>

\* GetFeed is about to return an error.
FeedFailed(f) == FeedDone(f) /\ feed[f].err # <<>>

FeedElems(f) == feed[f].feed.elems

FeedIds(f) == {FeedElems(f)[i].ID : i \in DOMAIN FeedElems(f)}

\* ------------------------------------------------------------------------
\* C13: the feed returned to a registered user U of zone Z holds neither U
\* nor any user of a zone other than Z.
\* ------------------------------------------------------------------------

C13_NoSelfNoOtherZone ==
    \A f \in FeedProcs :
        (FeedOk(f) /\ feed[f].userID \in DOMAIN users) =>
            \A i \in DOMAIN FeedElems(f) :
                /\ FeedElems(f)[i].ID # feed[f].userID
                /\ FeedElems(f)[i].ZoneID = users[feed[f].userID].ZoneID

\* A non-empty feed for "a" while a user of another zone is stored.
C13_Witness ==
    /\ FeedOk("f1") /\ feed["f1"].userID = "a"
    /\ FeedIds("f1") = {"b"}
    /\ "c" \in DOMAIN users /\ users["c"].ZoneID # users["a"].ZoneID

\* The stored users that pass all three filters for requester u, read off
\* the store itself.
Candidates(u) ==
    {c \in DOMAIN users :
        /\ users[c].ZoneID = users[u].ZoneID
        /\ c # u
        /\ ~\E i \in DOMAIN swipes :
               swipes[i].SwiperID = u /\ swipes[i].SwipedID = c}

\* ------------------------------------------------------------------------
\* C14: with no other operation during the call, the feed of a registered
\* user U is, as a set and without duplicates, exactly the stored users of
\* U's zone other than U that U has not swiped on (LIKE or PASS).
\* ------------------------------------------------------------------------

C14_FeedIsExactlyTheCandidates ==
    \A f \in FeedProcs :
        (FeedOk(f) /\ feed[f].userID \in DOMAIN users) =>
            /\ FeedIds(f) = Candidates(feed[f].userID)
            /\ Len(FeedElems(f)) = Cardinality(FeedIds(f))
            /\ \A i \in DOMAIN FeedElems(f) :
                   FeedElems(f)[i] = users[FeedElems(f)[i].ID]

\* Three users of one zone, "a" has passed on "b": the feed of "a" is "c".
C14_Witness ==
    /\ FeedOk("f1") /\ feed["f1"].userID = "a"
    /\ DOMAIN users = {"a", "b", "c"}
    /\ \A id \in DOMAIN users : users[id].ZoneID = "x"
    /\ \E i \in DOMAIN swipes : swipes[i] = Swipe("a", "b", SwipeActionPass)
    /\ FeedIds("f1") = {"c"}

\* ------------------------------------------------------------------------
\* C15: two distinct registered users of one zone with no swipe between
\* them in either direction each appear in the other's feed.
\* ------------------------------------------------------------------------

C15_UnswipedZoneMatesSeeEachOther ==
    \A f \in FeedProcs : \A a, b \in DOMAIN users :
        (/\ a # b
         /\ users[a].ZoneID = users[b].ZoneID
         /\ PairSwipes(a, b) = <<>>
         /\ FeedOk(f) /\ feed[f].userID = a)
            => b \in FeedIds(f)

\* "b" is in the feed of "a" although both have swiped, on someone else.
C15_Witness ==
    /\ FeedOk("f1") /\ feed["f1"].userID = "a"
    /\ {"a", "b"} \subseteq DOMAIN users
    /\ PairSwipes("a", "b") = <<>>
    /\ HasSwipe("a", "c", SwipeActionLike) /\ HasSwipe("b", "c", SwipeActionPass)
    /\ "b" \in FeedIds("f1")

\* The log holds a swipe a -> b, of either action. AddSwipe is the last
\* step of a successful call before its lookup and return, so this holds
\* from before the call returns, and without Reset it holds forever after.
Swiped(a, b) == \E action \in SwipeActions : HasSwipe(a, b, action)

FeedIdle(f) == feed[f].pc = "idle"

\* ------------------------------------------------------------------------
\* C16: once a swipe A -> B (LIKE or PASS) is on record, B is absent from
\* every feed of A that starts afterwards, whatever else happens meanwhile
\* (replies, further swipes, registrations), as long as no Reset occurs.
\* ------------------------------------------------------------------------

C16_SwipedNeverReappears ==
    \A a, b \in UserIds : \A f \in FeedProcs :
        []((Swiped(a, b) /\ FeedIdle(f))
              => []((FeedOk(f) /\ feed[f].userID = a) => b \notin FeedIds(f)))

\* "a" passed on "b", "b" liked "a" and registered users are all "a" could
\* be shown: the feed of "a" comes back empty.
C16_Witness ==
    /\ HasSwipe("a", "b", SwipeActionPass)
    /\ HasSwipe("b", "a", SwipeActionLike)
    /\ FeedOk("f1") /\ feed["f1"].userID = "a"
    /\ "b" \notin FeedIds("f1")
    /\ pc["p1"] # "idle"

\* ------------------------------------------------------------------------
\* C17: GetFeed on an identifier not in the store returns an error and a
\* nil feed; for a stored requester it returns a non-nil feed and no error.
\* There is no other error path.
\* ------------------------------------------------------------------------

C17_ErrorIffUnregistered ==
    \A f \in FeedProcs :
        FeedDone(f) =>
            /\ FeedFailed(f) <=> feed[f].userID \notin DOMAIN users
            /\ FeedFailed(f) => feed[f].feed = NilSlice
            /\ FeedOk(f) => ~feed[f].feed.isNil

\* A failed call for the unregistered "c" while "a" and "b" are stored.
C17_Witness ==
    /\ FeedFailed("f1") /\ feed["f1"].userID = "c"
    /\ feed["f1"].feed = NilSlice
    /\ DOMAIN users = {"a", "b"}

\* The switch on the error's kind (errors.As) that the swipe boundary uses.
StatusNotFound == 404
StatusBadRequest == 400
StatusInternalServerError == 500

StatusOf(err) ==
    CASE err.kind = "NotFoundError" -> StatusNotFound
      [] err.kind = "ValidationError" -> StatusBadRequest
      [] OTHER -> StatusInternalServerError

\* ------------------------------------------------------------------------
\* C18: the error GetFeed returns for an unknown requester is of the
\* not-found kind, the kind ProcessSwipe returns for an unknown user, so a
\* caller switching on the kind classifies it as not-found.
\* ------------------------------------------------------------------------

C18_FeedErrorIsNotFoundKind ==
    \A f \in FeedProcs :
        FeedFailed(f) =>
            /\ feed[f].err[1].kind = NotFoundError(<<>>).kind
            /\ StatusOf(feed[f].err[1]) = StatusNotFound

\* The identifiers that were registered once and are in the store no more:
\* only Reset removes a user, so these are the users a Reset discarded and
\* nobody has registered again.
Forgotten == everRegistered \ DOMAIN users

IsNotFound(err) == err # <<>> /\ err[1].kind = NotFoundError(<<>>).kind

\* A step that removes anything from the store leaves the store as Init has it.
C19_ResetEmptiesStore ==
    [][(\/ DOMAIN users' # DOMAIN users /\ ~(DOMAIN users \subseteq DOMAIN users')
        \/ Len(swipes') < Len(swipes)
        \/ Len(matches') < Len(matches))
          => (users' = <<>> /\ swipes' = <<>> /\ matches' = <<>>)]_vars

\* ProcessSwipe on two different users, one of them forgotten.
C19_SwipeOnForgottenIsNotFound ==
    \A p \in Procs :
        (/\ pc[p] = "done"
         /\ args[p].swiperID # args[p].swipedID
         /\ {args[p].swiperID, args[p].swipedID} \cap Forgotten # {})
            => IsNotFound(ret[p].err)

\* GetFeed for a forgotten user.
C19_FeedOfForgottenIsNotFound ==
    \A f \in FeedProcs :
        (FeedDone(f) /\ feed[f].userID \in Forgotten) => IsNotFound(feed[f].err)

\* ProcessSwipe of a forgotten user on itself.
C19_SelfSwipeOfForgottenIsNotFound ==
    \A p \in Procs :
        (/\ pc[p] = "done"
         /\ args[p].swiperID = args[p].swipedID
         /\ args[p].swiperID \in Forgotten)
            => IsNotFound(ret[p].err)

\* ------------------------------------------------------------------------
\* C19: after Reset the store is empty, and every later GetFeed or
\* ProcessSwipe call naming an identifier registered before the Reset fails
\* with a not-found error until that user is registered again.
\* ------------------------------------------------------------------------

C19_ForgottenUsersAreNotFound ==
    /\ C19_SwipeOnForgottenIsNotFound
    /\ C19_FeedOfForgottenIsNotFound

\* ------------------------------------------------------------------------
\* C20: in every reachable state, Reset running concurrently with a
\* ProcessSwipe call included, both participants of every Match in the
\* match log are users present in the store.
\* ------------------------------------------------------------------------

C20_MatchParticipantsStored ==
    \A i \in DOMAIN matches :
        /\ matches[i].User1ID \in DOMAIN users
        /\ matches[i].User2ID \in DOMAIN users

IsPrefix(s, t) == Len(s) <= Len(t) /\ SubSeq(t, 1, Len(s)) = s

\* ------------------------------------------------------------------------
\* C21: across every step that is not Reset the swipe log and the match
\* log only grow at the end (the earlier log is a prefix of the later one)
\* and no user leaves the user collection.
\* ------------------------------------------------------------------------

C21_AppendOnly ==
    [][~Reset =>
          /\ IsPrefix(swipes, swipes')
          /\ IsPrefix(matches, matches')
          /\ DOMAIN users \subseteq DOMAIN users']_vars

\* "b" liked "a", then "a" passed and then liked: the earlier entries stand
\* unchanged beside the later ones, and both users are still stored.
C21_Witness ==
    /\ swipes = <<Swipe("b", "a", SwipeActionLike),
                  Swipe("a", "b", SwipeActionPass),
                  Swipe("a", "b", SwipeActionLike)>>
    /\ matches = <<Match("a", "b")>>
    /\ Forgotten = {}
    /\ everRegistered = {"a", "b"}

\* ------------------------------------------------------------------------
\* Vocabulary of the store properties
\* ------------------------------------------------------------------------

\* What a method leaves in the store when it runs alone on store st.
Effect(name, arg, st) ==
    CASE name = "AddUser" -> <<AddUser(st[1], arg), st[2], st[3]>>
      [] name = "AddSwipe" -> <<st[1], AddSwipe(st[2], arg), st[3]>>
      [] name = "AddMatch" -> <<st[1], st[2], AddMatch(st[3], arg)>>
      [] name = "Reset" -> <<<<>>, <<>>, <<>>>>
      [] OTHER -> st

IsReader(name) ==
    name \in {"GetUser", "GetAllUsers", "GetSwipesByUser", "FindSwipe",
              "GetMatchesForUser"}

\* Caller p has finished the body of its store call and not yet unlocked.
BodyDone(p) == op[p].pc = "Unlock"

\* Caller p has returned from the store method name(arg).
StoreReturned(p, name, arg) ==
    op[p].pc = "done" /\ op[p].name = name /\ op[p].arg = arg

\* ------------------------------------------------------------------------
\* C22: the store's methods are mutually exclusive. At most one caller is
\* inside a method; while a caller is inside, no step of another caller
\* changes the store; and each method leaves the store, and returns the
\* value, that it would running alone on the store it found when it took
\* the mutex, so an execution equals the serial one in locking order.
\* ------------------------------------------------------------------------

C22_OneInside ==
    /\ Cardinality({p \in Procs : Holds(p)}) <= 1
    /\ \A p \in Procs : Holds(p) => mu = p

C22_NoInterference ==
    \A p \in Procs : (Holds(p) /\ op'[p] = op[p]) => UNCHANGED store

C22_SerialEffect ==
    \A p \in Procs :
        BodyDone(p) =>
            /\ store = Effect(op[p].name, op[p].arg, op[p].atLock)
            /\ IsReader(op[p].name) =>
                   op[p].result[1] \in
                       Reads(op[p].name, op[p].arg,
                             op[p].atLock[1], op[p].atLock[2], op[p].atLock[3])

C22_MutuallyExclusive ==
    [][C22_NoInterference]_vars /\ [](C22_OneInside /\ C22_SerialEffect)

\* "p1" is between the read and the write of its append while "p2" waits
\* for the mutex with a Reset.
C22_Witness ==
    /\ op["p1"].name = "AddSwipe" /\ op["p1"].pc = "Store"
    /\ op["p2"].name = "Reset" /\ op["p2"].pc = "Lock"
    /\ mu = "p1"
    /\ swipes # <<>>

\* The positions of the log holding a swipe x -> y.
Hits(x, y) ==
    {i \in DOMAIN swipes : swipes[i].SwiperID = x /\ swipes[i].SwipedID = y}

Earliest(S) == CHOOSE i \in S : \A j \in S : i <= j

\* ------------------------------------------------------------------------
\* C23: FindSwipe(x, y) returns the earliest swipe of the log with swiper x
\* and swiped y, never a later one, and nil when there is none, whether or
\* not a swipe y -> x exists.
\* ------------------------------------------------------------------------

C23_FindSwipeFirstInDirection ==
    \A p \in Procs :
        (op[p].pc = "done" /\ op[p].name = "FindSwipe") =>
            LET x == op[p].arg[1]
                y == op[p].arg[2]
            IN IF Hits(x, y) = {}
               THEN op[p].result[1] = <<>>
               ELSE op[p].result[1] = <<swipes[Earliest(Hits(x, y))]>>

\* Two swipes a -> b after one b -> a: the lookup returns the PASS, which
\* came first, and not the LIKE.
C23_Witness ==
    /\ StoreReturned("p1", "FindSwipe", <<"a", "b">>)
    /\ swipes = <<Swipe("b", "a", SwipeActionLike),
                  Swipe("a", "b", SwipeActionPass),
                  Swipe("a", "b", SwipeActionLike)>>
    /\ op["p1"].result[1] = <<Swipe("a", "b", SwipeActionPass)>>

\* Only a -> b on record: the lookup for b -> a returns nil.
C23_WitnessReverse ==
    /\ StoreReturned("p1", "FindSwipe", <<"b", "a">>)
    /\ Hits("a", "b") # {}
    /\ op["p1"].result[1] = <<>>

\* The k-th smallest element of a set of positions.
Nth(S, k) == CHOOSE i \in S : Cardinality({j \in S : j <= i}) = k

\* r lists exactly the entries of log at the positions S, in log order.
ListsPositions(r, log, S) ==
    /\ Len(r) = Cardinality(S)
    /\ \A k \in 1..Len(r) : r[k] = log[Nth(S, k)]

\* ------------------------------------------------------------------------
\* C24: GetSwipesByUser(id) returns exactly the entries of the swipe log
\* whose swiper is id, in append order, duplicates included, and no swipe
\* in which id is only the swiped side.
\* ------------------------------------------------------------------------

C24_SwipesOfSwiperInOrder ==
    \A p \in Procs :
        (op[p].pc = "done" /\ op[p].name = "GetSwipesByUser") =>
            ListsPositions(op[p].result[1].elems, swipes,
                           {i \in DOMAIN swipes : swipes[i].SwiperID = op[p].arg})

\* "a" liked "b" twice with a swipe of "b" on "a" between: the result is
\* the two LIKEs of "a".
C24_Witness ==
    /\ StoreReturned("p1", "GetSwipesByUser", "a")
    /\ swipes = <<Swipe("a", "b", SwipeActionLike),
                  Swipe("b", "a", SwipeActionLike),
                  Swipe("a", "b", SwipeActionLike)>>
    /\ op["p1"].result[1].elems = <<Swipe("a", "b", SwipeActionLike),
                                    Swipe("a", "b", SwipeActionLike)>>

\* ------------------------------------------------------------------------
\* C25: for a user who has recorded no swipe, GetSwipesByUser returns an
\* empty slice value and not nil.
\* ------------------------------------------------------------------------

C25_NoSwipesGivesEmptyNotNil ==
    \A p \in Procs :
        (/\ op[p].pc = "done" /\ op[p].name = "GetSwipesByUser"
         /\ ~\E i \in DOMAIN swipes : swipes[i].SwiperID = op[p].arg)
            => op[p].result[1] = SliceOf(<<>>)

\* ------------------------------------------------------------------------
\* C26: GetMatchesForUser(id) returns exactly the entries of the match log
\* with id as User1 or User2, in append order: a Match (X, Y) is returned
\* for X and for Y, and for no third user.
\* ------------------------------------------------------------------------

C26_MatchesOfEitherSideInOrder ==
    \A p \in Procs :
        (op[p].pc = "done" /\ op[p].name = "GetMatchesForUser") =>
            ListsPositions(op[p].result[1].elems, matches,
                           {i \in DOMAIN matches :
                               \/ matches[i].User1ID = op[p].arg
                               \/ matches[i].User2ID = op[p].arg})

\* (a, b) then (b, c) on record: "b", second side of one and first side of
\* the other, gets both in that order.
C26_Witness ==
    /\ StoreReturned("p1", "GetMatchesForUser", "b")
    /\ matches = <<Match("a", "b"), Match("b", "c")>>
    /\ op["p1"].result[1].elems = <<Match("a", "b"), Match("b", "c")>>

\* The same log: "c" gets only the match it is in.
C26_WitnessThird ==
    /\ StoreReturned("p1", "GetMatchesForUser", "c")
    /\ matches = <<Match("a", "b"), Match("b", "c")>>
    /\ op["p1"].result[1].elems = <<Match("b", "c")>>

\* ------------------------------------------------------------------------
\* C27: AddUser stores the user under its identifier, so that GetUser(id)
\* then returns it with found=true; GetUser on an identifier never stored
\* returns found=false; AddUser on an identifier already present replaces
\* that entry: the number of users stays, every other user, the swipe log
\* and the match log are untouched, and GetUser returns the new record.
\* ------------------------------------------------------------------------

\* The assignment step of an AddUser call.
C27_PutEffect ==
    \A p \in Procs :
        (op[p].name = "AddUser" /\ op[p].pc = "Store" /\ op'[p].pc = "Unlock") =>
            LET user == op[p].arg
            IN /\ GetUser(users', user.ID) = [user |-> user, exists |-> TRUE]
               /\ DOMAIN users' = DOMAIN users \cup {user.ID}
               /\ user.ID \in DOMAIN users
                    => Cardinality(DOMAIN users') = Cardinality(DOMAIN users)
               /\ \A id \in DOMAIN users \ {user.ID} : users'[id] = users[id]
               /\ swipes' = swipes /\ matches' = matches

\* What a GetUser call returns.
C27_GetResult ==
    \A p \in Procs :
        (op[p].pc = "done" /\ op[p].name = "GetUser") =>
            LET r == op[p].result[1]
            IN /\ r.exists <=> op[p].arg \in DOMAIN users
               /\ r.exists => r.user = users[op[p].arg]
               /\ op[p].arg \notin everRegistered => ~r.exists

C27_PutThenGet == [][C27_PutEffect]_vars /\ []C27_GetResult

\* AddUser has just replaced the entry of "a" (zone x) by a record of zone
\* y, with "b" stored and both logs non-empty.
C27_Witness ==
    /\ op["p1"].name = "AddUser" /\ BodyDone("p1")
    /\ "a" \in DOMAIN op["p1"].atLock[1]
    /\ op["p1"].atLock[1]["a"] = User("a", "x")
    /\ users["a"] = User("a", "y")
    /\ "b" \in DOMAIN users
    /\ swipes # <<>> /\ matches # <<>>

\* GetUser returns the replacing record.
C27_WitnessGet ==
    /\ StoreReturned("p1", "GetUser", "a")
    /\ op["p1"].result[1] = [user |-> User("a", "y"), exists |-> TRUE]

\* ------------------------------------------------------------------------
\* C28: when GetFeed succeeds and no candidate passes the filters, it
\* returns an empty slice value, never nil.
\* ------------------------------------------------------------------------

C28_EmptyFeedIsNotNil ==
    \A f \in FeedProcs :
        /\ (FeedOk(f) /\ FeedElems(f) = <<>>) => feed[f].feed = SliceOf(<<>>)
        /\ (/\ FeedOk(f) /\ feed[f].userID \in DOMAIN users
            /\ Candidates(feed[f].userID) = {})
               => feed[f].feed = SliceOf(<<>>)

\* "a" has swiped on its only zone mate "b", "c" is of another zone: the
\* feed of "a" is empty and not nil.
C28_Witness ==
    /\ FeedOk("f1") /\ feed["f1"].userID = "a"
    /\ DOMAIN users = {"a", "b", "c"}
    /\ users["c"].ZoneID # users["a"].ZoneID
    /\ Swiped("a", "b")
    /\ feed["f1"].feed = SliceOf(<<>>)

\* A step of a registration: the user collection changes and is not emptied.
Registers == users' # users /\ users' # <<>>

\* ------------------------------------------------------------------------
\* C29: user identifiers are unique. No two stored users share an
\* identifier, and every registration takes an identifier no stored user
\* has, adds exactly one user and neither overwrites nor removes another.
\* ------------------------------------------------------------------------

\* Every entry is stored under its own identifier, so two stored users
\* with one identifier would be one entry.
C29_KeyedByOwnId == \A id \in DOMAIN users : users[id].ID = id

C29_RegistrationAddsOne ==
    Registers =>
        \E id \in UserIds :
            /\ id \notin DOMAIN users
            /\ DOMAIN users' = DOMAIN users \cup {id}
            /\ users'[id].ID = id
            /\ Cardinality(DOMAIN users') = Cardinality(DOMAIN users) + 1
            /\ \A old \in DOMAIN users : users'[old] = users[old]

C29_UniqueIds == [][C29_RegistrationAddsOne]_vars /\ []C29_KeyedByOwnId

\* Three users stored under three identifiers, "c" in zone y.
C29_Witness ==
    /\ DOMAIN users = {"a", "b", "c"}
    /\ users["c"] = User("c", "y")
    /\ swipes = <<>> /\ matches = <<>>
    /\ Cardinality({users[id].ID : id \in DOMAIN users}) = 3

\* How many entries of sw equal s.
Copies(sw, s) == Cardinality({i \in DOMAIN sw : sw[i] = s})

\* ------------------------------------------------------------------------
\* C30: ProcessSwipe is not idempotent. Each successful call appends its
\* swipe even when identical swipes are on record, so after n identical
\* calls GetSwipesByUser(swiper) holds n entries for the target; none is
\* deduplicated or overwritten.
\* ------------------------------------------------------------------------

C30_EachCallAddsACopy ==
    \A p \in Procs :
        (Moves(p) /\ pc[p] = "AddSwipe") =>
            LET before == GetSwipesByUser(swipes, args[p].swiperID)
                after == GetSwipesByUser(swipes', args[p].swiperID)
            IN /\ after = Append(before, OwnSwipe(p))
               /\ Copies(after, OwnSwipe(p)) = Copies(before, OwnSwipe(p)) + 1

C30_ResubmissionAppends == [][C30_EachCallAddsACopy]_vars

\* The last of MaxSwipes identical LIKEs of "a" on "b" has returned: the
\* swipes of "a" are MaxSwipes copies of it.
C30_Witness ==
    /\ Succeeded("p1") /\ Returned("p1", "a", "b", SwipeActionLike)
    /\ Len(GetSwipesByUser(swipes, "a")) = MaxSwipes
    /\ Copies(GetSwipesByUser(swipes, "a"), Swipe("a", "b", SwipeActionLike)) = MaxSwipes

\* The (feed, err) pairs a GetFeed(userID) call can return when it runs
\* alone on the store as it is: one per order the map iteration can take.
GetFeedAlone(userID) ==
    LET r == GetUser(users, userID)
    IN IF ~r.exists
       THEN {[feed |-> NilSlice, err |-> <<Errorf(<<"user", userID, "not found">>)>>]}
       ELSE {[feed |-> NormaliseFeed(
                          FilterFeed(all, r.user, userID,
                                     SeenSet(GetSwipesByUser(swipes, userID)))),
              err |-> <<>>] : all \in GetAllUsers(users)}

IdsOf(slice) == {slice.elems[i].ID : i \in DOMAIN slice.elems}

\* ------------------------------------------------------------------------
\* C31: GetFeed only reads. No step of a call, successful or failing,
\* changes users, swipes or matches; and a second call for the same
\* requester with no write in between returns the same set of users (or
\* fails again), whatever order the store lists the users in.
\* ------------------------------------------------------------------------

C31_FeedStepKeepsStore == feed' # feed => UNCHANGED store

C31_RetryGivesSameSet ==
    \A f \in FeedProcs :
        FeedDone(f) =>
            \A again \in GetFeedAlone(feed[f].userID) :
                /\ again.err = feed[f].err
                /\ again.feed.isNil = feed[f].feed.isNil
                /\ IdsOf(again.feed) = FeedIds(f)

C31_FeedReadOnlyRetrySafe ==
    [][C31_FeedStepKeepsStore]_vars /\ []C31_RetryGivesSameSet

\* A feed of two users, which the store can list in either order, with
\* swipes and a match on record.
C31_Witness ==
    /\ FeedOk("f1") /\ feed["f1"].userID = "c"
    /\ FeedIds("f1") = {"a", "b"}
    /\ Cardinality(GetFeedAlone("c")) > 1
    /\ swipes # <<>> /\ matches # <<>>

\* A failed call: the retry fails the same way.
C31_WitnessFailed ==
    /\ FeedFailed("f1")
    /\ users # <<>>

\* ------------------------------------------------------------------------
\* HTTP boundary: SwipeHandler.CreateSwipe (POST /swipe) and
\* SwipeHandler.GetMatches (GET /matches)
\* ------------------------------------------------------------------------

StatusOK == 200
StatusCreated == 201
StatusUnprocessableEntity == 422

\* Texts a client may send where a UUID is expected: the canonical text of
\* each identifier, "A" (another spelling uuid.Parse accepts for "a"), "zz"
\* (not a UUID) and the empty text.
RawIds == UserIds \cup {"A", "zz", ""}

\* Texts a client may send as the action.
RawActions == SwipeActions \cup {"SUPERLIKE"}

\* uuid.Parse: the identifier a text denotes, or failure.
ParseUUID(s) ==
    CASE s \in UserIds -> [id |-> s, ok |-> TRUE]
      [] s = "A" -> [id |-> "a", ok |-> TRUE]
      [] OTHER -> [id |-> "", ok |-> FALSE]

\* SwipeAction.IsValid
IsValid(action) == action \in {SwipeActionLike, SwipeActionPass}

\* CreateSwipeRequest.Validate: the parsed fields and the list of complaints.
Validate(r) ==
    LET swiper == ParseUUID(r.swiper_id)
        swiped == ParseUUID(r.swiped_id)
    IN [swiperID |-> swiper.id, swipedID |-> swiped.id, action |-> r.action,
        errs |-> (IF swiper.ok THEN <<>> ELSE <<"swiper_id must be a valid UUID">>)
                  \o (IF swiped.ok THEN <<>> ELSE <<"swiped_id must be a valid UUID">>)
                  \o (IF IsValid(r.action) THEN <<>> ELSE <<"action must be LIKE or PASS">>)]

\* Request bodies: <<>> is a body that is not JSON, <<r>> one that decodes to r.
SwipeBodies ==
    {<<>>} \cup {<<[swiper_id |-> a, swiped_id |-> b, action |-> act]>> :
                    a \in RawIds \ {""}, b \in RawIds \ {""}, act \in RawActions}

\* writeError / writeSuccess: the response is written and the handler returns.
Respond(req, status, data, meta) ==
    [req EXCEPT !.pc = "responded", !.status = @ \o <<status>>,
                !.data = data, !.meta = meta]

\* The switch on the kind of the returned error answers 404 whatever the kind.
WriteServiceError_AlwaysNotFound(req, err) ==
    Respond([req EXCEPT !.err = err], StatusNotFound, <<err[1].Message>>, <<>>)

\* CreateSwipe, lines 60-75: the switch on the kind of the returned error.
WriteServiceError(req, err) ==
    Respond([req EXCEPT !.err = err], StatusOf(err[1]),
            IF StatusOf(err[1]) = StatusInternalServerError
            THEN <<"internal server error">> ELSE <<err[1].Message>>,
            <<>>)

\* CreateSwipe up to the call of ProcessSwipe: decode, validate, and answer
\* 422 at once if either fails.
ServeCreateSwipe(p, body) ==
    /\ http[p].pc = "idle" /\ pc[p] = "idle"
    /\ Len(swipes) + Cardinality(Pending) < MaxSwipes
    /\ LET req == [NoRequest EXCEPT !.route = "POST /swipe", !.body = body]
       IN http' = [http EXCEPT ![p] =
             IF body = <<>>
             THEN Respond(req, StatusUnprocessableEntity,
                          <<"invalid JSON in request body">>, <<>>)
             ELSE LET v == Validate(body[1])
                  IN IF Len(v.errs) > 0
                     THEN Respond(req, StatusUnprocessableEntity, v.errs, <<>>)
                     ELSE [req EXCEPT !.pc = "ProcessSwipe", !.parsed = <<v>>]]
    /\ UNCHANGED <<users, swipes, matches, pc, args, ret, feed, everRegistered, mu, op>>

\* h.swipeService.ProcessSwipe(swiperID, swipedID, action) is entered.
CreateSwipeCall(p) ==
    /\ http[p].pc = "ProcessSwipe" /\ pc[p] = "idle"
    /\ LET v == http[p].parsed[1]
       IN Call(p, v.swiperID, v.swipedID, v.action)

\* ProcessSwipe has returned (result, err): the handler writes the response.
CreateSwipeRespond(p) ==
    /\ http[p].pc = "ProcessSwipe" /\ pc[p] = "done"
    /\ http' = [http EXCEPT ![p] =
          IF ret[p].err # <<>>
          THEN WriteServiceError(@, ret[p].err)
          ELSE LET result == ret[p].result[1]
               IN Respond([@ EXCEPT !.result = <<result>>], StatusCreated,
                          [swipe |-> result.Swipe, matched |-> result.Matched,
                           match |-> result.Match],
                          <<>>)]
    /\ pc' = [pc EXCEPT ![p] = "idle"]
    /\ args' = [args EXCEPT ![p] = NoArgs]
    /\ ret' = [ret EXCEPT ![p] = NoRet]
    /\ UNCHANGED <<users, swipes, matches, feed, everRegistered, mu, op>>

\* if matches == nil { matches = []models.Match{} }
NonNilMatches(ms) == IF ms.isNil THEN SliceOf(<<>>) ELSE ms

\* GetMatches up to its first store call: the user_id query parameter.
ServeGetMatches(p, userIDStr) ==
    /\ http[p].pc = "idle" /\ pc[p] = "idle"
    /\ LET req == [NoRequest EXCEPT !.route = "GET /matches", !.body = <<userIDStr>>]
           userID == ParseUUID(userIDStr)
       IN http' = [http EXCEPT ![p] =
             IF userIDStr = ""
             THEN Respond(req, StatusUnprocessableEntity,
                          <<"user_id query parameter is required">>, <<>>)
             ELSE IF ~userID.ok
             THEN Respond(req, StatusUnprocessableEntity,
                          <<"user_id must be a valid UUID">>, <<>>)
             ELSE [req EXCEPT !.pc = "GetUser", !.parsed = <<userID.id>>]]
    /\ UNCHANGED <<users, swipes, matches, pc, args, ret, feed, everRegistered, mu, op>>

\* Every identifier counts as registered.
GetMatchesGetUser_Lenient(p) ==
    /\ http[p].pc = "GetUser"
    /\ http' = [http EXCEPT ![p] = [@ EXCEPT !.pc = "GetMatchesForUser"]]
    /\ UNCHANGED <<users, swipes, matches, pc, args, ret, feed, everRegistered, mu, op>>

\* if _, exists := h.store.GetUser(userID); !exists { 404 }
GetMatchesGetUser(p) ==
    /\ http[p].pc = "GetUser"
    /\ http' = [http EXCEPT ![p] =
          IF ~GetUser(users, @.parsed[1]).exists
          THEN Respond(@, StatusNotFound, <<"user not found">>, <<>>)
          ELSE [@ EXCEPT !.pc = "GetMatchesForUser"]]
    /\ UNCHANGED <<users, swipes, matches, pc, args, ret, feed, everRegistered, mu, op>>

\* h.store.GetMatchesForUser(userID), the nil check, and the 200 response.
GetMatchesRespond(p) ==
    /\ http[p].pc = "GetMatchesForUser"
    /\ LET ms == NonNilMatches(Collected(GetMatchesForUser(matches, http[p].parsed[1])))
       IN http' = [http EXCEPT ![p] =
             Respond(@, StatusOK, ms, [count |-> Len(ms.elems)])]
    /\ UNCHANGED <<users, swipes, matches, pc, args, ret, feed, everRegistered, mu, op>>

\* The response has gone out; the goroutine serves the next request.
Finish(p) ==
    /\ http[p].pc = "responded"
    /\ http' = [http EXCEPT ![p] = NoRequest]
    /\ UNCHANGED <<users, swipes, matches, pc, args, ret, feed, everRegistered, mu, op>>

\* The steps of ProcessSwipe between its entry and its return.
Inside(p) ==
    \/ GetSwiper(p)
    \/ GetSwiped(p)
    \/ RecordSwipe(p)
    \/ LookupReverse(p)
    \/ RecordMatch(p)

\* One goroutine serving POST /swipe and GET /matches requests, one after
\* the other.
Serve(p) ==
    \/ \E body \in SwipeBodies : ServeCreateSwipe(p, body)
    \/ CreateSwipeCall(p)
    \/ Inside(p)
    \/ CreateSwipeRespond(p)
    \/ \E userIDStr \in RawIds : ServeGetMatches(p, userIDStr)
    \/ GetMatchesGetUser(p)
    \/ GetMatchesRespond(p)
    \/ Finish(p)

\* The ProcessSwipe calls that run beside the HTTP requests: swipes between
\* the two users that register.
PeerBegin(p) ==
    \E swiperID \in {"a", "b"}, swipedID \in {"a", "b"}, action \in SwipeActions :
        swiperID # swipedID /\ Call(p, swiperID, swipedID, action)

\* p1 serves HTTP requests while users register and p2 runs ProcessSwipe
\* calls of its own.
NextHttp ==
    \/ Register(RaceProfiles)
    \/ Serve("p1")
    \/ PeerBegin("p2")
    \/ StepBy("p2")

SpecHttp == Init /\ [][NextHttp]_vars

\* A POST /swipe request of caller p has been answered.
SwipeAnswered(p) == http[p].pc = "responded" /\ http[p].route = "POST /swipe"

\* The body is JSON, both identifiers are UUID texts and the action is LIKE
\* or PASS.
WellFormed(body) ==
    /\ body # <<>>
    /\ \E a \in UserIds \cup {"A"} : body[1].swiper_id = a
    /\ \E b \in UserIds \cup {"A"} : body[1].swiped_id = b
    /\ body[1].action \in {"LIKE", "PASS"}

\* The identifier a well-formed text stands for.
Named(s) == IF s = "A" THEN "a" ELSE s

\* ------------------------------------------------------------------------
\* C32: POST /swipe. A well-formed request is answered 201 exactly when
\* ProcessSwipe succeeded, 400 exactly when it was a self-swipe, 404 exactly
\* when ProcessSwipe reported a user as not found (which it does when the
\* swiper or the swiped user never registered), and never 500. A request
\* that is not well-formed is answered 422 in the step that receives it:
\* ProcessSwipe is not entered and users, swipes and matches stay as they
\* were.
\* ------------------------------------------------------------------------

C32_StatusByOutcome ==
    \A p \in Procs :
        SwipeAnswered(p) =>
            LET req == http[p]
                self == Named(req.body[1].swiper_id) = Named(req.body[1].swiped_id)
                unknown == \/ Named(req.body[1].swiper_id) \notin everRegistered
                           \/ Named(req.body[1].swiped_id) \notin everRegistered
            IN /\ Len(req.status) = 1
               /\ req.status[1] # 500
               /\ ~WellFormed(req.body) <=> req.status = <<422>>
               /\ WellFormed(req.body) =>
                     /\ req.status[1] \in {201, 400, 404}
                     /\ req.status = <<201>> <=> (req.err = <<>> /\ req.result # <<>>)
                     /\ req.status = <<400>> <=> self
                     /\ req.status = <<400>> <=> req.err = SelfSwipeError
                     /\ req.status = <<404>> <=> IsNotFound(req.err)
                     /\ (~self /\ unknown) => req.status = <<404>>

C32_RejectedAtTheDoor ==
    \A p \in Procs :
        (http'[p] # http[p] /\ http'[p].route = "POST /swipe"
            /\ http'[p].status = <<422>>)
        => /\ http[p].pc = "idle"
           /\ pc[p] = "idle" /\ pc'[p] = "idle"
           /\ args' = args /\ ret' = ret
           /\ UNCHANGED store

C32_OnlyWellFormedReachProcessSwipe ==
    \A p \in Procs :
        http[p].pc = "ProcessSwipe" => WellFormed(http[p].body)

C32_SwipeStatusMapping ==
    /\ []C32_StatusByOutcome
    /\ [][C32_RejectedAtTheDoor]_vars
    /\ []C32_OnlyWellFormedReachProcessSwipe

\* 201 for a LIKE b->a, sent with the other spelling of "a", that produced a
\* match.
C32_Witness ==
    /\ SwipeAnswered("p1")
    /\ http["p1"].body = <<[swiper_id |-> "b", swiped_id |-> "A", action |-> "LIKE"]>>
    /\ http["p1"].status = <<201>>
    /\ http["p1"].data.matched

\* 400 for a self-swipe of a registered user.
C32_WitnessSelfSwipe ==
    /\ SwipeAnswered("p1")
    /\ http["p1"].status = <<400>>
    /\ http["p1"].body[1].swiper_id \in DOMAIN users

\* 404 for an unknown swiper and for an unknown swiped user.
C32_WitnessUnknownSwiper ==
    /\ SwipeAnswered("p1")
    /\ http["p1"].status = <<404>>
    /\ http["p1"].err = SwiperNotFound("c")

C32_WitnessUnknownSwiped ==
    /\ SwipeAnswered("p1")
    /\ http["p1"].status = <<404>>
    /\ http["p1"].err = SwipedNotFound("c")

\* 422 for an unknown action between two registered users, for a text that
\* is not a UUID, and for a body that is not JSON; swipes are on record.
C32_WitnessBadAction ==
    /\ SwipeAnswered("p1")
    /\ http["p1"].body = <<[swiper_id |-> "a", swiped_id |-> "b", action |-> "SUPERLIKE"]>>
    /\ http["p1"].status = <<422>>
    /\ DOMAIN users = {"a", "b"} /\ swipes # <<>>

C32_WitnessBadId ==
    /\ SwipeAnswered("p1")
    /\ http["p1"].body = <<[swiper_id |-> "zz", swiped_id |-> "b", action |-> "LIKE"]>>
    /\ http["p1"].status = <<422>>

C32_WitnessBadJson ==
    /\ SwipeAnswered("p1")
    /\ http["p1"].body = <<>>
    /\ http["p1"].status = <<422>>

\* A GET /matches request of caller p has been answered.
MatchesAnswered(p) == http[p].pc = "responded" /\ http[p].route = "GET /matches"

\* The matches on record with userID on either side, in append order.
MatchesOf(userID) ==
    SelectSeq(matches, LAMBDA m : m.User1ID = userID \/ m.User2ID = userID)

\* ------------------------------------------------------------------------
\* C33: GET /matches. For a user_id that names no stored user the answer is
\* 404 and carries no match list; for a stored user it is 200, the data are
\* the matches of that user on record when the list is read, in order, as a
\* non-nil array (empty when there is none), and count is their number.
\* ------------------------------------------------------------------------

\* The user check: 404 at once for an identifier not in the store.
C33_UnknownUserStopsHere ==
    \A p \in Procs :
        (http[p].pc = "GetUser" /\ http'[p] # http[p]) =>
            IF http[p].parsed[1] \in DOMAIN users
            THEN http'[p].pc = "GetMatchesForUser" /\ http'[p].status = <<>>
            ELSE /\ http'[p].pc = "responded"
                 /\ http'[p].status = <<404>>
                 /\ http'[p].data = <<"user not found">>
                 /\ http'[p].meta = <<>>

\* The 200 answer holds exactly the user's matches at the time of the read.
C33_ListIsTheUsersMatches ==
    \A p \in Procs :
        (http[p].pc = "GetMatchesForUser" /\ http'[p] # http[p]) =>
            /\ http'[p].pc = "responded"
            /\ http'[p].status = <<200>>
            /\ http[p].parsed[1] \in DOMAIN users
            /\ ~http'[p].data.isNil
            /\ http'[p].data.elems = MatchesOf(http[p].parsed[1])
            /\ http'[p].meta = [count |-> Len(MatchesOf(http[p].parsed[1]))]

\* Every answer is one of 200, 404 and 422; 200 comes only from the read.
C33_AnswerKinds ==
    \A p \in Procs :
        MatchesAnswered(p) =>
            /\ Len(http[p].status) = 1
            /\ http[p].status[1] \in {200, 404, 422}
            /\ http[p].status = <<422>> <=> http[p].body[1] \in {"", "zz"}
            /\ http[p].status = <<200>> =>
                  /\ http[p].parsed[1] \in everRegistered
                  /\ ~http[p].data.isNil
                  /\ http[p].meta.count = Len(http[p].data.elems)
                  /\ \A i \in DOMAIN http[p].data.elems :
                        http[p].parsed[1] \in {http[p].data.elems[i].User1ID,
                                               http[p].data.elems[i].User2ID}
            /\ (http[p].status # <<422>> /\ http[p].parsed[1] \notin everRegistered)
                  => http[p].status = <<404>>

C33_MatchesEndpoint ==
    /\ [][C33_UnknownUserStopsHere /\ C33_ListIsTheUsersMatches]_vars
    /\ []C33_AnswerKinds

\* 200 for "b", asked with the identifier on the User2 side of a match.
C33_Witness ==
    /\ MatchesAnswered("p1")
    /\ http["p1"].status = <<200>>
    /\ http["p1"].parsed = <<"b">>
    /\ Len(http["p1"].data.elems) > 0
    /\ http["p1"].data.elems[1].User2ID = "b"
    /\ http["p1"].meta.count = Len(matches)

\* 200 with an empty array for a stored user without a match.
C33_WitnessEmpty ==
    /\ MatchesAnswered("p1")
    /\ http["p1"].status = <<200>>
    /\ http["p1"].data = SliceOf(<<>>)
    /\ swipes # <<>>

\* 404 for "c", which nobody registered, while matches are on record.
C33_WitnessUnknown ==
    /\ MatchesAnswered("p1")
    /\ http["p1"].status = <<404>>
    /\ http["p1"].parsed = <<"c">>
    /\ matches # <<>>

\* The earliest swipe x -> y of the log exists and is a LIKE.
EarliestIsLike(x, y) ==
    /\ Hits(x, y) # {}
    /\ swipes[Earliest(Hits(x, y))].Action = "LIKE"

\* ------------------------------------------------------------------------
\* C34: with calls one at a time, a ProcessSwipe(a, b, LIKE) that passes
\* validation returns matched=true exactly when the earliest swipe b -> a of
\* the log exists and is a LIKE. With no swipe b -> a, or with a PASS as the
\* earliest one (a later LIKE b -> a changes nothing), it returns
\* matched=false with no Match, and the match log only ever grows in a step
\* of a LIKE call whose earliest reverse swipe is a LIKE.
\* ------------------------------------------------------------------------

C34_MatchedIffEarliestReverseLike ==
    \A p \in Procs, a \in UserIds, b \in UserIds :
        (Returned(p, a, b, SwipeActionLike) /\ Succeeded(p)) =>
            /\ ret[p].result[1].Matched <=> EarliestIsLike(b, a)
            /\ ret[p].result[1].Matched <=> ret[p].result[1].Match # <<>>

C34_MatchAppendedOnlyThen ==
    matches' # matches =>
        \E p \in Procs :
            /\ pc[p] = "AddMatch" /\ pc'[p] = "done"
            /\ args[p].action = "LIKE"
            /\ EarliestIsLike(args[p].swipedID, args[p].swiperID)
            /\ matches' = Append(matches, Match(args[p].swiperID, args[p].swipedID))

\* A call that returns matched=false leaves the match log as it found it.
C34_UnmatchedCallAppendsNothing ==
    \A p \in Procs :
        (pc[p] \in {"FindSwipe", "AddMatch"} /\ pc'[p] = "done"
            /\ ~ret'[p].result[1].Matched)
        => matches' = matches /\ pc[p] = "FindSwipe"

C34_WitnessMatched ==
    /\ Returned("p1", "a", "b", SwipeActionLike)
    /\ swipes = <<Swipe("b", "a", SwipeActionLike),
                  Swipe("b", "a", SwipeActionPass),
                  Swipe("a", "b", SwipeActionLike)>>
    /\ ReturnedMatched("p1")
    /\ matches = <<Match("a", "b")>>

\* No swipe b -> a at all: no match.
C34_WitnessNoReverse ==
    /\ Returned("p1", "a", "b", SwipeActionLike) /\ Succeeded("p1")
    /\ Hits("b", "a") = {}
    /\ ~ret["p1"].result[1].Matched

\* The swiper of the ProcessSwipe call that caller p is running in this step.
StepSwiper(p) == IF pc[p] = "idle" THEN args'[p].swiperID ELSE args[p].swiperID

\* The swipes of the log made by userID, in append order.
Outgoing(log, userID) == SelectSeq(log, LAMBDA s : s.SwiperID = userID)

\* ------------------------------------------------------------------------
\* C35: what GetFeed returns for a user A is a function of the stored users
\* and of A's own outgoing swipes. No step of a ProcessSwipe(X, Y, action)
\* call with X # A changes it, be it a swipe X -> A or one that creates a
\* match with A; and no step at all that keeps the users and A's outgoing
\* swipes changes it. (Only steps that write to the store are looked at:
\* GetFeedAlone reads nothing else.)
\* ------------------------------------------------------------------------

\* A step of a ProcessSwipe call whose swiper is not A.
C35_OthersSwipeStep(A) ==
    \E p \in Procs : pc'[p] # pc[p] /\ StepSwiper(p) # A

\* A step that keeps the users and A's outgoing swipes.
C35_KeepsWhatCounts(A) ==
    users' = users /\ Outgoing(swipes', A) = Outgoing(swipes, A)

C35_FeedUnchanged ==
    \A A \in UserIds :
        (store' # store /\ (C35_OthersSwipeStep(A) \/ C35_KeepsWhatCounts(A)))
        => GetFeedAlone(A)' = GetFeedAlone(A)

C35_FeedIgnoresOthersSwipes == [][C35_FeedUnchanged]_vars

\* LIKE b -> a has just produced a match with a; a, b and c share a zone and
\* a's feed is still c alone.
C35_Witness ==
    /\ Returned("p1", "b", "a", SwipeActionLike) /\ ReturnedMatched("p1")
    /\ matches = <<Match("b", "a")>>
    /\ \A r \in GetFeedAlone("a") : r.err = <<>> /\ IdsOf(r.feed) = {"c"}

\* b has swiped on a, a has not swiped on b: b is still in a's feed.
C35_WitnessIncoming ==
    /\ Returned("p1", "b", "a", SwipeActionPass) /\ Succeeded("p1")
    /\ \A r \in GetFeedAlone("a") : r.err = <<>> /\ "b" \in IdsOf(r.feed)

\* ------------------------------------------------------------------------
\* C36: in every reachable state, Reset running between a ProcessSwipe
\* call's user checks and its AddSwipe included, every swipe of the swipe
\* log has a swiper different from its swiped user, and both are users
\* present in the store.
\* ------------------------------------------------------------------------

C36_SwipesBetweenStoredUsers ==
    \A i \in DOMAIN swipes :
        /\ swipes[i].SwiperID # swipes[i].SwipedID
        /\ swipes[i].SwiperID \in DOMAIN users
        /\ swipes[i].SwipedID \in DOMAIN users

\* The part of C36 that needs no user: no swipe of a user on itself.
C36_NoSelfSwipeOnRecord ==
    \A i \in DOMAIN swipes : swipes[i].SwiperID # swipes[i].SwipedID

\* ------------------------------------------------------------------------
\* ProcessSwipe and GetFeed with the store's mutex: every store call of a
\* service call is entered, waits in s.mu.Lock(), runs its body, unlocks
\* and returns its value to the service
\* ------------------------------------------------------------------------

\* The store call ProcessSwipe makes at each of its positions.
SwipeStoreCall(p) ==
    CASE pc[p] = "GetSwiper" -> [name |-> "GetUser", arg |-> args[p].swiperID]
      [] pc[p] = "GetSwiped" -> [name |-> "GetUser", arg |-> args[p].swipedID]
      [] pc[p] = "AddSwipe" ->
            [name |-> "AddSwipe",
             arg |-> Swipe(args[p].swiperID, args[p].swipedID, args[p].action)]
      [] pc[p] = "FindSwipe" ->
            [name |-> "FindSwipe", arg |-> <<args[p].swipedID, args[p].swiperID>>]
      [] pc[p] = "AddMatch" ->
            [name |-> "AddMatch", arg |-> NewMatch(args[p].swiperID, args[p].swipedID)]

\* ProcessSwipe enters its next store method.
SwipeEnters(p) ==
    /\ pc[p] \in {"GetSwiper", "GetSwiped", "AddSwipe", "FindSwipe", "AddMatch"}
    /\ op[p].pc = "idle"
    /\ op' = [op EXCEPT ![p] = [NoOp EXCEPT !.pc = "Lock",
                                           !.name = SwipeStoreCall(p).name,
                                           !.arg = SwipeStoreCall(p).arg]]
    /\ UNCHANGED <<users, swipes, matches, pc, args, ret, feed, everRegistered, mu, http>>

\* The store method has returned: ProcessSwipe goes on with its value.
SwipeResumes(p) ==
    /\ op[p].pc = "done"
    /\ op' = [op EXCEPT ![p] = NoOp]
    /\ LET failed(who, id) ==
              /\ ret' = [ret EXCEPT ![p] =
                           [result |-> <<>>,
                            err |-> <<NotFoundError(<<who, id, "not found">>)>>]]
              /\ pc' = [pc EXCEPT ![p] = "done"]
           goes(next) == ret' = ret /\ pc' = [pc EXCEPT ![p] = next]
       IN CASE pc[p] = "GetSwiper" ->
                 IF ~op[p].result[1].exists
                 THEN failed("swiper user", args[p].swiperID)
                 ELSE goes("GetSwiped")
            [] pc[p] = "GetSwiped" ->
                 IF ~op[p].result[1].exists
                 THEN failed("swiped user", args[p].swipedID)
                 ELSE goes("AddSwipe")
            [] pc[p] = "AddSwipe" ->
                 /\ ret' = [ret EXCEPT ![p] =
                              [result |-> <<[Swipe |-> op[p].arg, Matched |-> FALSE,
                                             Match |-> <<>>]>>,
                               err |-> <<>>]]
                 /\ pc' = [pc EXCEPT ![p] =
                             IF ChecksForMatch(args[p].action) THEN "FindSwipe" ELSE "done"]
            [] pc[p] = "FindSwipe" ->
                 goes(IF IsMutual(op[p].result[1]) THEN "AddMatch" ELSE "done")
            [] pc[p] = "AddMatch" ->
                 /\ ret' = [ret EXCEPT ![p] =
                              [result |-> <<[Swipe |-> ret[p].result[1].Swipe,
                                             Matched |-> TRUE,
                                             Match |-> <<op[p].arg>>]>>,
                               err |-> <<>>]]
                 /\ pc' = [pc EXCEPT ![p] = "done"]
    /\ UNCHANGED <<users, swipes, matches, args, feed, everRegistered, mu, http>>

\* The store call GetFeed makes at each of its positions.
FeedStoreCall(f) ==
    CASE feed[f].pc = "GetUser" -> [name |-> "GetUser", arg |-> feed[f].userID]
      [] feed[f].pc = "GetAllUsers" -> [name |-> "GetAllUsers", arg |-> <<>>]
      [] feed[f].pc = "GetSwipesByUser" ->
            [name |-> "GetSwipesByUser", arg |-> feed[f].userID]

\* GetFeed enters its next store method.
FeedEnters(f) ==
    /\ feed[f].pc \in {"GetUser", "GetAllUsers", "GetSwipesByUser"}
    /\ op[f].pc = "idle"
    /\ op' = [op EXCEPT ![f] = [NoOp EXCEPT !.pc = "Lock",
                                           !.name = FeedStoreCall(f).name,
                                           !.arg = FeedStoreCall(f).arg]]
    /\ UNCHANGED <<users, swipes, matches, pc, args, ret, feed, everRegistered, mu, http>>

\* The store method has returned: GetFeed goes on with its value.
FeedResumes(f) ==
    /\ op[f].pc = "done"
    /\ op' = [op EXCEPT ![f] = NoOp]
    /\ LET r == op[f].result[1]
       IN feed' = [feed EXCEPT ![f] =
             CASE feed[f].pc = "GetUser" ->
                    IF ~r.exists
                    THEN [@ EXCEPT !.pc = "done",
                                   !.feed = NilSlice,
                                   !.err = <<Errorf(<<"user", feed[f].userID, "not found">>)>>]
                    ELSE [@ EXCEPT !.pc = "GetAllUsers", !.requestingUser = r.user]
               [] feed[f].pc = "GetAllUsers" ->
                    [@ EXCEPT !.pc = "GetSwipesByUser", !.allUsers = r.elems]
               [] feed[f].pc = "GetSwipesByUser" ->
                    [@ EXCEPT !.pc = "done",
                              !.feed = NormaliseFeed(
                                          FilterFeed(feed[f].allUsers,
                                                     feed[f].requestingUser,
                                                     feed[f].userID, SeenSet(r.elems)))]]
    /\ UNCHANGED <<users, swipes, matches, pc, args, ret, everRegistered, mu, http>>

\* The steps of a store method after s.mu.Lock(), the unlock included.
InStore(p) ==
    \/ AppendLoad(p)
    \/ AddSwipeBody(p)
    \/ AddMatchBody(p)
    \/ ReadBody(p)
    \/ Unlock(p)

\* Every step of a started ProcessSwipe call but the wait for the mutex.
SwipeRuns(p) == SwipeEnters(p) \/ InStore(p) \/ SwipeResumes(p) \/ Return(p)

\* Every step of a started GetFeed call but the wait for the mutex.
FeedRuns(f) == FeedEnters(f) \/ InStore(f) \/ FeedResumes(f) \/ FeedReturn(f)

\* The requests of the concurrent callers: p1 likes b as a and a as b, once
\* each (registered by then or not); p2 swipes as c, whom nobody registers,
\* again and again; f1 asks for a's feed again and again.
LiveBegin ==
    \/ Hits("a", "b") = {} /\ Call("p1", "a", "b", SwipeActionLike)
    \/ Hits("b", "a") = {} /\ Call("p1", "b", "a", SwipeActionLike)
    \/ Call("p2", "c", "a", SwipeActionLike)
    \/ FeedCall("f1", "a")

\* Registration takes the mutex for one assignment.
LiveRegister == mu = NoOne /\ Register(RaceProfiles)

NextLive ==
    \/ LiveRegister
    \/ LiveBegin
    \/ \E p \in Procs : Lock(p) \/ SwipeRuns(p)
    \/ \E f \in FeedProcs : Lock(f) \/ FeedRuns(f)

\* The scheduler runs every goroutine that can take a step (weak fairness
\* of each call's steps, the attempt to lock included); requests need not
\* arrive.
FairlyScheduled ==
    /\ \A p \in Procs : WF_vars(Lock(p) \/ SwipeRuns(p))
    /\ \A f \in FeedProcs : WF_vars(Lock(f) \/ FeedRuns(f))

Callers == Procs \cup FeedProcs

\* sync.Mutex does not let a waiting caller be overtaken for ever: a waiter
\* that keeps losing the mutex to later arrivals is handed it directly by
\* the next Unlock() (the mutex's starvation mode). Stated as strong
\* fairness of the Lock() step.
LockHandsOver == \A p \in Callers : SF_vars(Lock(p))

SpecLive == Init /\ [][NextLive]_vars /\ FairlyScheduled /\ LockHandsOver

\* A call of ProcessSwipe / GetFeed that has started and not yet returned.
SwipeRunning(p) == pc[p] \notin {"idle", "done"}
FeedRunning(f) == feed[f].pc \notin {"idle", "done"}

\* The holder of the mutex is inside a store method, where it can always
\* take a step; nobody else holds it.
MutexHeldInside ==
    \A p \in Callers :
        /\ mu = p <=> Holds(p)
        /\ Holds(p) => ENABLED InStore(p)

\* The mutex changes hands only by the Lock() a method starts with and the
\* Unlock() it ends with.
LockOnceUnlockOnce ==
    \A p \in Callers :
        /\ (mu # p /\ mu' = p) => (op[p].pc = "Lock" /\ mu = NoOne)
        /\ (mu = p /\ mu' # p) =>
              (op[p].pc = "Unlock" /\ op'[p].pc = "done" /\ mu' = NoOne)

\* Every started call eventually returns.
EveryCallReturns ==
    /\ \A p \in Procs : SwipeRunning(p) ~> (pc[p] = "done")
    /\ \A f \in FeedProcs : FeedRunning(f) ~> (feed[f].pc = "done")

\* ------------------------------------------------------------------------
\* C37: the store cannot deadlock and every call terminates. The mutex is
\* held exactly by a caller inside a store method, who can always take its
\* next step; it changes hands only by the Lock() a method starts with and
\* the Unlock() it ends with, so ProcessSwipe and GetFeed do not hold it
\* between their store calls; and with every runnable caller scheduled,
\* every started ProcessSwipe and GetFeed call eventually returns, whatever
\* the other callers do.
\* ------------------------------------------------------------------------

C37_WitnessWriter ==
    /\ mu = "p1" /\ op["p1"].name = "AddMatch"
    /\ op["p2"].pc = "Lock" /\ op["f1"].pc = "Lock"

====
